---- MODULE Spec2Model ----
(***************************************************************************)
(* Verification model of the Video2Text backend: the WebVTT cue codec      *)
(* (providers/vtt_utils.py), the batch translation orchestrators           *)
(* (providers/litellm_base.py, providers/openai.py), the subtitle cache    *)
(* and the streaming producers/consumers of /transcribe and /summarize     *)
(* (main.py).                                                              *)
(*                                                                         *)
(* Strings are sequences of one-character strings; URLs are sequences of   *)
(* lexemes.  Times are integers in milliseconds (the code uses float       *)
(* seconds); wall-clock time is an integer number of seconds.              *)
(***************************************************************************)
EXTENDS Integers, Sequences, FiniteSets, TLC

(***************************************************************************)
(* Character-level string helpers (Python str methods used by the code).   *)
(***************************************************************************)

\* Characters str.strip() and the regex class \s treat as whitespace.
WS == {" ", "\n", "\t"}

NL == <<"\n">>

DIGITS == <<"0", "1", "2", "3", "4", "5", "6", "7", "8", "9">>

IsDigit(c) == \E d \in 1..10 : DIGITS[d] = c

DigitVal(c) == (CHOOSE d \in 1..10 : DIGITS[d] = c) - 1

\* s[from..] (1-based), empty when from is past the end.
Drop(s, from) == SubSeq(s, from, Len(s))

\* First index >= i of s whose character is not whitespace, Len(s) + 1 if none.
RECURSIVE SkipWS(_, _)
SkipWS(s, i) == IF i > Len(s) \/ s[i] \notin WS THEN i ELSE SkipWS(s, i + 1)

\* Last index <= i of s whose character is not whitespace, 0 if none.
RECURSIVE SkipWSBack(_, _)
SkipWSBack(s, i) == IF i < 1 \/ s[i] \notin WS THEN i ELSE SkipWSBack(s, i - 1)

\* str.strip(): drop leading and trailing whitespace.
Strip(s) == SubSeq(s, SkipWS(s, 1), SkipWSBack(s, Len(s)))

\* TRUE iff sep occurs in s starting at position i.
OccursAt(s, sep, i) ==
    /\ i >= 1
    /\ i + Len(sep) - 1 <= Len(s)
    /\ \A k \in 1..Len(sep) : s[i + k - 1] = sep[k]

\* str.find: first index >= i where sep occurs in s, 0 if there is none.
RECURSIVE Find(_, _, _)
Find(s, sep, i) ==
    IF i + Len(sep) - 1 > Len(s) THEN 0
    ELSE IF OccursAt(s, sep, i) THEN i
    ELSE Find(s, sep, i + 1)

\* str.split(sep) for a non-empty separator: the pieces between successive
\* non-overlapping occurrences of sep, scanning left to right.
RECURSIVE Split(_, _)
Split(s, sep) ==
    LET i == Find(s, sep, 1)
    IN  IF i = 0 THEN <<s>>
        ELSE <<SubSeq(s, 1, i - 1)>> \o Split(Drop(s, i + Len(sep)), sep)

\* sep.join(parts)
RECURSIVE Join(_, _)
Join(parts, sep) ==
    IF Len(parts) = 0 THEN <<>>
    ELSE IF Len(parts) = 1 THEN parts[1]
    ELSE parts[1] \o sep \o Join(Tail(parts), sep)

\* Concatenation of a sequence of sequences.
RECURSIVE Flatten(_)
Flatten(ss) == IF Len(ss) = 0 THEN <<>> ELSE ss[1] \o Flatten(Tail(ss))

\* Decimal value of a sequence of digit characters.
RECURSIVE DecVal(_)
DecVal(ds) ==
    IF Len(ds) = 0 THEN 0
    ELSE DecVal(SubSeq(ds, 1, Len(ds) - 1)) * 10 + DigitVal(ds[Len(ds)])

\* Decimal digits of a natural number, most significant first.
RECURSIVE DecStr(_)
DecStr(n) ==
    IF n < 10 THEN <<DIGITS[n + 1]>>
    ELSE DecStr(n \div 10) \o <<DIGITS[(n % 10) + 1]>>

\* Format spec 0<w>d: zero-pad on the left to at least w digits.
RECURSIVE ZeroPad(_, _)
ZeroPad(ds, w) == IF Len(ds) >= w THEN ds ELSE ZeroPad(<<"0">> \o ds, w)

AllDigits(s) == Len(s) > 0 /\ \A i \in 1..Len(s) : IsDigit(s[i])

(***************************************************************************)
(* providers/vtt_utils.py                                                  *)
(***************************************************************************)

HEADER == <<"W", "E", "B", "V", "T", "T">>

ARROW == <<"-", "-", ">">>

\* int(x): surrounding whitespace is accepted, then decimal digits only.
PyIntOk(x) == AllDigits(Strip(x))

PyInt(x) == DecVal(Strip(x))

\* float(x) for the decimal forms a timestamp can carry: digits, optionally
\* a point and more digits (at least one digit overall).
PyFloatOk(x) ==
    LET t == Strip(x)
        p == Split(t, <<".">>)
    IN  \/ AllDigits(t)
        \/ /\ Len(p) = 2
           /\ Len(p[1]) + Len(p[2]) > 0
           /\ \A i \in 1..Len(t) : IsDigit(t[i]) \/ t[i] = "."

\* float(x) * 1000, truncated to whole milliseconds.
PyFloatMs(x) ==
    LET t  == Strip(x)
        p  == Split(t, <<".">>)
        fr == IF Len(p) = 2 THEN SubSeq(p[2] \o <<"0", "0", "0">>, 1, 3) ELSE <<"0", "0", "0">>
    IN  DecVal(p[1]) * 1000 + DecVal(fr)

\* parse_vtt_time: [ok |-> FALSE] stands for the ValueError of int()/float().
parse_vtt_time(time_str) ==
    LET parts == Split(time_str, <<":">>)
    IN  IF Len(parts) = 3
        THEN IF PyIntOk(parts[1]) /\ PyIntOk(parts[2]) /\ PyFloatOk(parts[3])
             THEN [ok |-> TRUE,
                   ms |-> PyInt(parts[1]) * 3600000 + PyInt(parts[2]) * 60000
                          + PyFloatMs(parts[3])]
             ELSE [ok |-> FALSE, ms |-> 0]
        ELSE IF Len(parts) >= 2 /\ PyIntOk(parts[1]) /\ PyFloatOk(parts[2])
             THEN [ok |-> TRUE, ms |-> PyInt(parts[1]) * 60000 + PyFloatMs(parts[2])]
             ELSE [ok |-> FALSE, ms |-> 0]

\* The SubRip form of a timestamp, with a comma before the milliseconds.
format_vtt_time_subrip(ms) ==
    LET hours   == ms \div 3600000
        minutes == (ms % 3600000) \div 60000
        secs    == ms % 60000
    IN  ZeroPad(DecStr(hours), 2) \o <<":">> \o ZeroPad(DecStr(minutes), 2) \o <<":">>
        \o ZeroPad(DecStr(secs \div 1000), 2) \o <<",">> \o ZeroPad(DecStr(secs % 1000), 3)

\* format_vtt_time: hours and minutes with {:02d}, seconds with {:06.3f}.
format_vtt_time(ms) ==
    LET hours   == ms \div 3600000
        minutes == (ms % 3600000) \div 60000
        secs    == ms % 60000
    IN  ZeroPad(DecStr(hours), 2) \o <<":">> \o ZeroPad(DecStr(minutes), 2) \o <<":">>
        \o ZeroPad(DecStr(secs \div 1000), 2) \o <<".">> \o ZeroPad(DecStr(secs % 1000), 3)

\* Lengths of the matches of  (\d{2}:)?\d{2}:\d{2}\.\d{3}  starting at i.
StampLens(s, i) ==
    LET shortAt(k) ==
            /\ k + 8 <= Len(s)
            /\ IsDigit(s[k]) /\ IsDigit(s[k + 1]) /\ s[k + 2] = ":"
            /\ IsDigit(s[k + 3]) /\ IsDigit(s[k + 4]) /\ s[k + 5] = "."
            /\ IsDigit(s[k + 6]) /\ IsDigit(s[k + 7]) /\ IsDigit(s[k + 8])
        longAt(k) ==
            /\ k + 2 <= Len(s)
            /\ IsDigit(s[k]) /\ IsDigit(s[k + 1]) /\ s[k + 2] = ":"
            /\ shortAt(k + 3)
    IN  (IF shortAt(i) THEN {9} ELSE {}) \cup (IF longAt(i) THEN {12} ELSE {})

\* time_pattern.search(line): stamp \s* --> \s* stamp somewhere in the line.
time_pattern_search(line) ==
    \E i \in 1..Len(line) : \E a \in StampLens(line, i) :
        \E j \in (i + a)..Len(line) :
            /\ \A k \in (i + a)..(j - 1) : line[k] \in WS
            /\ OccursAt(line, ARROW, j)
            /\ \E m \in (j + 3)..Len(line) :
                /\ \A k \in (j + 3)..(m - 1) : line[k] \in WS
                /\ StampLens(line, m) # {}

\* The loop body of parse_vtt_segments over the remaining lines.  acc is the
\* list of finished segments, cur the open segment (<<>> when None, else a
\* one-element sequence).
RECURSIVE ParseLines(_, _, _)
ParseLines(lines, acc, cur) ==
    IF Len(lines) = 0
    THEN [ok |-> TRUE, segs |-> acc \o cur]
    ELSE LET line == Strip(lines[1])
             rest == Tail(lines)
         IN  IF Len(line) = 0 \/ line = HEADER
             THEN ParseLines(rest, acc, cur)
             ELSE IF time_pattern_search(line)
             THEN LET times == Split(line, ARROW)
                      st    == parse_vtt_time(Strip(times[1]))
                      en    == parse_vtt_time(Strip(times[2]))
                  IN  IF st.ok /\ en.ok
                      THEN ParseLines(rest, acc \o cur,
                                      <<[start |-> st.ms, end |-> en.ms, text |-> <<>>]>>)
                      ELSE [ok |-> FALSE, segs |-> <<>>]
             ELSE IF Len(cur) = 1
             THEN ParseLines(rest, acc,
                             <<[cur[1] EXCEPT !.text =
                                   @ \o (IF Len(@) > 0 THEN NL ELSE <<>>) \o line]>>)
             ELSE ParseLines(rest, acc, cur)

\* parse_vtt_segments: [ok |-> FALSE] stands for an escaping ValueError.
parse_vtt_segments(vtt_content) ==
    ParseLines(Split(Strip(vtt_content), NL), <<>>, <<>>)

\* One cue as build_vtt_from_segments writes it.
CueBlock(seg) ==
    format_vtt_time(seg.start) \o <<" ">> \o ARROW \o <<" ">> \o format_vtt_time(seg.end)
    \o NL \o Strip(seg.text) \o NL \o NL

build_vtt_from_segments(segments) ==
    HEADER \o NL \o NL \o Flatten([i \in 1..Len(segments) |-> CueBlock(segments[i])])

(***************************************************************************)
(* providers/base.py                                                       *)
(***************************************************************************)

\* TranscriptionProvider._format_timestamp
format_timestamp(ms) ==
    LET hours   == ms \div 3600000
        minutes == (ms % 3600000) \div 60000
        secs    == ms % 60000
    IN  ZeroPad(DecStr(hours), 2) \o <<":">> \o ZeroPad(DecStr(minutes), 2) \o <<":">>
        \o ZeroPad(DecStr(secs \div 1000), 2) \o <<".">> \o ZeroPad(DecStr(secs % 1000), 3)

\* TranscriptionProvider.create_vtt_from_segments
create_vtt_from_segments(segs) ==
    HEADER \o NL \o NL
    \o Flatten([i \in 1..Len(segs) |->
                  format_timestamp(segs[i].start) \o <<" ">> \o ARROW \o <<" ">>
                  \o format_timestamp(segs[i].end) \o NL \o Strip(segs[i].text) \o NL \o NL])

(***************************************************************************)
(* Bounds and scaled program constants.                                    *)
(***************************************************************************)

\* Largest number of cues in a transcript.
MaxCues == 5

\* litellm_base.BATCH_SIZE is 150 in the source; scaled down so that a
\* transcript of MaxCues cues spans several batches.
BATCH_SIZE == 2

\* openai.BATCH_SIZE is 50 in the source; scaled down likewise.
OPENAI_BATCH_SIZE == 2

\* LiteLLMProvider.get_concurrency_limit() is 10 in the source; scaled down
\* so that there can be more batches than permits.
get_concurrency_limit == 2

(***************************************************************************)
(* Inputs of the translation orchestrators.                                *)
(***************************************************************************)

LETTERS == <<"a", "b", "c", "d", "e", "f", "g", "h">>

\* Text of the i-th transcribed cue; the second cue has two lines.
SourceText(i) == IF i = 2 THEN <<"b", "\n", "x">> ELSE <<LETTERS[i]>>

SourceCue(i) == [start |-> (i - 1) * 1000, end |-> i * 1000, text |-> SourceText(i)]

SourceCues(n) == [i \in 1..n |-> SourceCue(i)]

\* A document with a header and a stray text line but no cue.
StrayDoc == HEADER \o NL \o NL \o <<"z">> \o NL

\* Documents a transcription can hand to translate().
InputDocs == {create_vtt_from_segments(SourceCues(n)) : n \in 0..MaxCues} \cup {StrayDoc}

\* The sentinel language tag and one real target language.
ORIGINAL == <<"o", "r", "i", "g", "i", "n", "a", "l">>

PT == <<"p", "t">>

Languages == {ORIGINAL, PT}

\* What the translation model answers for one source text.
Tr(t, pad) == IF pad THEN <<" ", "T">> \o t \o <<" ">> ELSE <<"T">> \o t

EXTRA == <<"+">>

\* An answer of m strings for a batch of texts: the first min(m, n) are the
\* translations of the texts in order, the others are surplus entries.
Answer(texts, m, pad) ==
    [j \in 1..m |-> IF j <= Len(texts) THEN Tr(texts[j], pad) ELSE EXTRA]

\* Outcomes of litellm.acompletion + json.loads for one batch:
\*   raise      the remote call raises
\*   badjson    the content is not JSON (json.loads raises)
\*   nonobject  the content is JSON but not an object (parsed.get raises)
\*   ok         a JSON object whose "translations" is a list of m strings
\*              (m = 0 also covers a missing key); a complete answer may
\*              come padded with whitespace
LiteLLMResponses(texts) ==
    {[kind |-> k, translations |-> <<>>] : k \in {"raise", "badjson", "nonobject"}}
    \cup {[kind |-> "ok", translations |-> Answer(texts, m, FALSE)] :
            m \in 0..(Len(texts) + 1)}
    \cup {[kind |-> "ok", translations |-> Answer(texts, Len(texts), TRUE)]}

\* Outcomes of client.chat.completions.create for one batch: it raises, or
\* the content has one line per returned translation.
OpenAIResponses(texts) ==
    {[kind |-> "raise", content |-> <<>>]}
    \cup {[kind |-> "ok", content |-> Join(Answer(texts, m, FALSE), NL)] :
            m \in 0..Len(texts)}
    \cup {[kind |-> "ok", content |-> Join(Answer(texts, Len(texts), TRUE), NL)]}

(***************************************************************************)
(* Batching (litellm_base.py:229, openai.py:153).                          *)
(***************************************************************************)

\* Number of slices  range(0, n, size)  produces.
NumBatches(n, size) == (n + size - 1) \div size

\* Index range (1-based, inclusive) of batch b = 1..NumBatches.
BatchLo(b, size) == (b - 1) * size + 1

\* A slice that runs one cue into the next one.
BatchHi_overlapping(b, n, size) == IF b * size + 1 < n THEN b * size + 1 ELSE n

BatchHi(b, n, size) == IF b * size < n THEN b * size ELSE n

\* segments[i:i + size] for the b-th slice.
BatchOf(segs, b, size) == SubSeq(segs, BatchLo(b, size), BatchHi(b, Len(segs), size))

Texts(batch) == [i \in 1..Len(batch) |-> batch[i].text]

(***************************************************************************)
(* State of one translate() call (SpecTranslate).                          *)
(***************************************************************************)
VARIABLES
    provider_name,      \* "groq" (a LiteLLMProvider) or "openai"
    vtt_content,        \* argument: the document to translate
    target_language,    \* argument
    progress_callback,  \* argument: TRUE iff a callback was passed
    t_pc,               \* "called", "gather", "returned" or "raised"
    input_segments,     \* the cues as decoded, before any batch changed them
    segments,           \* the TranscriptionSegment objects, changed in place
    task,               \* batch index -> "pending", "inflight", "done", "failed"
    response,           \* batch index -> outcome of its remote call
    semaphore,          \* free permits of asyncio.Semaphore
    remote_calls,       \* number of remote translation calls issued
    completed,          \* batch indices in completion order
    progress_calls,     \* invocations of progress_callback, in order
    translated_all,     \* the reassembled cue list
    t_result            \* the returned document

tvars == <<provider_name, vtt_content, target_language, progress_callback, t_pc,
           input_segments, segments, task, response, semaphore, remote_calls,
           completed, progress_calls, translated_all, t_result>>

NoResponse == [kind |-> "none"]

\* No translate() call is modelled (used by the other specifications).
TranslateUnused ==
    /\ provider_name = "groq"
    /\ vtt_content = <<>>
    /\ target_language = ORIGINAL
    /\ progress_callback = FALSE
    /\ t_pc = "unused"
    /\ input_segments = <<>>
    /\ segments = <<>>
    /\ task = <<>>
    /\ response = <<>>
    /\ semaphore = 0
    /\ remote_calls = 0
    /\ completed = <<>>
    /\ progress_calls = <<>>
    /\ translated_all = <<>>
    /\ t_result = <<>>

(***************************************************************************)
(* LiteLLMProvider (providers/litellm_base.py)                             *)
(***************************************************************************)

\* The two early returns of translate: the "original" sentinel (line 199)
\* and a document without cues (line 203).
IsOriginal(lang) == lang = ORIGINAL

\* translate without its second early return.
NoSegments_ignored(segs) == FALSE

NoSegments(segs) == Len(segs) = 0

\* translate_batch without its except clause: a failed call escapes.
translate_batch_no_except(batch, r) ==
    IF r.kind # "ok"
    THEN [raised |-> TRUE, batch |-> batch]
    ELSE [raised |-> FALSE,
          batch  |-> [i \in 1..Len(batch) |->
                        IF i <= Len(r.translations)
                        THEN [batch[i] EXCEPT !.text = r.translations[i]]
                        ELSE batch[i]]]

\* translate_batch that drops an answer of the wrong length altogether.
translate_batch_all_or_nothing(batch, r) ==
    LET texts            == Texts(batch)
        translated_texts == IF r.kind = "ok" /\ Len(r.translations) = Len(texts)
                            THEN r.translations ELSE texts
    IN  [raised |-> FALSE,
         batch  |-> [i \in 1..Len(batch) |->
                       [batch[i] EXCEPT !.text = translated_texts[i]]]]

\* Body of translate_batch once the remote call has resolved with r
\* (lines 269-285): the except clause substitutes the source texts, then the
\* first len(translated_texts) cues of the batch take the returned strings.
translate_batch(batch, r) ==
    LET texts            == Texts(batch)
        translated_texts == IF r.kind = "ok" THEN r.translations ELSE texts
    IN  [raised |-> FALSE,
         batch  |-> [i \in 1..Len(batch) |->
                       IF i <= Len(translated_texts)
                       THEN [batch[i] EXCEPT !.text = translated_texts[i]]
                       ELSE batch[i]]]

\* A gate that never blocks.
CanAcquire_ungated(permits) == TRUE

\* asyncio.Semaphore: acquire proceeds only while a permit is free.
CanAcquire(permits) == permits > 0

\* Results taken in the order the tasks finished.
GatherOrder_as_completed(k, completion_order) == completion_order

\* asyncio.gather returns the results in the order of the awaitables it was
\* given, whatever the completion order was.
GatherOrder(k, completion_order) == [b \in 1..k |-> b]

\* segments with the cues of batch b replaced by new_batch (the batch holds
\* the same objects as the list it was sliced from).
WithBatch(segs, b, size, new_batch) ==
    [i \in 1..Len(segs) |->
        IF BatchLo(b, size) <= i /\ i <= BatchHi(b, Len(segs), size)
        THEN new_batch[i - BatchLo(b, size) + 1]
        ELSE segs[i]]

NumTasks == Len(task)

\* LiteLLMProvider.translate up to the creation of the batch tasks.
translate ==
    /\ t_pc = "called"
    /\ provider_name = "groq"
    /\ LET parsed == parse_vtt_segments(vtt_content)
       IN  IF IsOriginal(target_language)
           THEN /\ t_pc' = "returned"
                /\ t_result' = vtt_content
                /\ UNCHANGED <<input_segments, segments, task, response, semaphore>>
           ELSE IF ~parsed.ok
           THEN /\ t_pc' = "raised"
                /\ UNCHANGED <<t_result, input_segments, segments, task, response, semaphore>>
           ELSE IF NoSegments(parsed.segs)
           THEN /\ t_pc' = "returned"
                /\ t_result' = vtt_content
                /\ UNCHANGED <<input_segments, segments, task, response, semaphore>>
           ELSE /\ t_pc' = "gather"
                /\ input_segments' = parsed.segs
                /\ segments' = parsed.segs
                /\ task' = [b \in 1..NumBatches(Len(parsed.segs), BATCH_SIZE) |-> "pending"]
                /\ response' = [b \in 1..NumBatches(Len(parsed.segs), BATCH_SIZE) |-> NoResponse]
                /\ semaphore' = get_concurrency_limit
                /\ UNCHANGED t_result
    /\ UNCHANGED <<provider_name, vtt_content, target_language, progress_callback,
                   remote_calls, completed, progress_calls, translated_all>>

\* translate_batch enters "async with semaphore" and issues acompletion.
\* gather starts the tasks in index order and the semaphore wakes its
\* waiters first-in first-out, so permits are taken in index order.
batch_acquire(b) ==
    /\ t_pc = "gather"
    /\ provider_name = "groq"
    /\ task[b] = "pending"
    /\ \A a \in 1..(b - 1) : task[a] # "pending"
    /\ CanAcquire(semaphore)
    /\ semaphore' = semaphore - 1
    /\ task' = [task EXCEPT ![b] = "inflight"]
    /\ remote_calls' = remote_calls + 1
    /\ UNCHANGED <<provider_name, vtt_content, target_language, progress_callback, t_pc,
                   input_segments, segments, response, completed, progress_calls,
                   translated_all, t_result>>

\* A batch that gives its permit back only when its call succeeded.
batch_complete_keeps_permit_on_failure(b) ==
    /\ t_pc = "gather"
    /\ provider_name = "groq"
    /\ task[b] = "inflight"
    /\ \E r \in LiteLLMResponses(Texts(BatchOf(segments, b, BATCH_SIZE))) :
         LET out == translate_batch(BatchOf(segments, b, BATCH_SIZE), r)
         IN  /\ response' = [response EXCEPT ![b] = r]
             /\ semaphore' = IF r.kind = "ok" THEN semaphore + 1 ELSE semaphore
             /\ task' = [task EXCEPT ![b] = "done"]
             /\ segments' = WithBatch(segments, b, BATCH_SIZE, out.batch)
             /\ completed' = Append(completed, b)
             /\ UNCHANGED t_pc
    /\ UNCHANGED <<provider_name, vtt_content, target_language, progress_callback,
                   input_segments, remote_calls, progress_calls, translated_all, t_result>>

\* The remote call of batch b resolves; the semaphore is released and the
\* batch is rewritten, with no suspension point in between.
batch_complete(b) ==
    /\ t_pc = "gather"
    /\ provider_name = "groq"
    /\ task[b] = "inflight"
    /\ \E r \in LiteLLMResponses(Texts(BatchOf(segments, b, BATCH_SIZE))) :
         LET out == translate_batch(BatchOf(segments, b, BATCH_SIZE), r)
         IN  /\ response' = [response EXCEPT ![b] = r]
             /\ semaphore' = semaphore + 1
             /\ IF out.raised
                THEN /\ task' = [task EXCEPT ![b] = "failed"]
                     /\ t_pc' = "raised"
                     /\ UNCHANGED <<segments, completed>>
                ELSE /\ task' = [task EXCEPT ![b] = "done"]
                     /\ segments' = WithBatch(segments, b, BATCH_SIZE, out.batch)
                     /\ completed' = Append(completed, b)
                     /\ UNCHANGED t_pc
    /\ UNCHANGED <<provider_name, vtt_content, target_language, progress_callback,
                   input_segments, remote_calls, progress_calls, translated_all, t_result>>

\* gather_return that never invokes the callback.
gather_return_silent ==
    /\ t_pc = "gather"
    /\ provider_name = "groq"
    /\ \A b \in 1..NumTasks : task[b] = "done"
    /\ LET order == GatherOrder(NumTasks, completed)
           all   == Flatten([k \in 1..Len(order) |-> BatchOf(segments, order[k], BATCH_SIZE)])
       IN  /\ translated_all' = all
           /\ t_result' = build_vtt_from_segments(all)
    /\ t_pc' = "returned"
    /\ UNCHANGED <<provider_name, vtt_content, target_language, progress_callback,
                   input_segments, segments, task, response, semaphore, remote_calls,
                   completed, progress_calls>>

\* gather has every result: reassemble, report progress once, encode
\* (lines 288-300).
gather_return ==
    /\ t_pc = "gather"
    /\ provider_name = "groq"
    /\ \A b \in 1..NumTasks : task[b] = "done"
    /\ LET order == GatherOrder(NumTasks, completed)
           all   == Flatten([k \in 1..Len(order) |-> BatchOf(segments, order[k], BATCH_SIZE)])
       IN  /\ translated_all' = all
           /\ t_result' = build_vtt_from_segments(all)
    /\ progress_calls' = IF progress_callback
                         THEN Append(progress_calls, [stage |-> "translating", progress |-> 100])
                         ELSE progress_calls
    /\ t_pc' = "returned"
    /\ UNCHANGED <<provider_name, vtt_content, target_language, progress_callback,
                   input_segments, segments, task, response, semaphore, remote_calls,
                   completed>>

(***************************************************************************)
(* OpenAIProvider.translate (providers/openai.py)                          *)
(***************************************************************************)

NonEmpty(line) == Len(line) > 0

\* Body of OpenAIProvider.translate_batch (lines 126-150): the call raises,
\* or the content is split into stripped non-empty lines that are paired
\* with the cues by position.
openai_translate_batch(batch, r) ==
    IF r.kind = "raise"
    THEN [raised |-> TRUE, batch |-> batch]
    ELSE LET texts == Texts(batch)
             split == Split(Strip(r.content), NL)
             translated_lines ==
                 SelectSeq([i \in 1..Len(split) |-> Strip(split[i])], NonEmpty)
         IN  [raised |-> FALSE,
              batch  |-> [i \in 1..Len(batch) |->
                            IF i <= Len(translated_lines)
                            THEN [batch[i] EXCEPT !.text = translated_lines[i]]
                            ELSE [batch[i] EXCEPT !.text = texts[i]]]]

\* OpenAIProvider.translate up to the creation of the batch tasks.
openai_translate ==
    /\ t_pc = "called"
    /\ provider_name = "openai"
    /\ LET parsed == parse_vtt_segments(vtt_content)
       IN  IF ~parsed.ok
           THEN /\ t_pc' = "raised"
                /\ UNCHANGED <<t_result, input_segments, segments, task, response>>
           ELSE IF NoSegments(parsed.segs) \/ IsOriginal(target_language)
           THEN /\ t_pc' = "returned"
                /\ t_result' = vtt_content
                /\ UNCHANGED <<input_segments, segments, task, response>>
           ELSE /\ t_pc' = "gather"
                /\ input_segments' = parsed.segs
                /\ segments' = parsed.segs
                /\ task' = [b \in 1..NumBatches(Len(parsed.segs), OPENAI_BATCH_SIZE) |-> "pending"]
                /\ response' = [b \in 1..NumBatches(Len(parsed.segs), OPENAI_BATCH_SIZE)
                                  |-> NoResponse]
                /\ UNCHANGED t_result
    /\ UNCHANGED <<provider_name, vtt_content, target_language, progress_callback,
                   semaphore, remote_calls, completed, progress_calls, translated_all>>

\* One batch task runs from start to end: translate_batch contains no await,
\* so the tasks gather created run one after the other in index order.
openai_batch(b) ==
    /\ t_pc = "gather"
    /\ provider_name = "openai"
    /\ task[b] = "pending"
    /\ \A a \in 1..(b - 1) : task[a] # "pending"
    /\ \E r \in OpenAIResponses(Texts(BatchOf(segments, b, OPENAI_BATCH_SIZE))) :
         LET out == openai_translate_batch(BatchOf(segments, b, OPENAI_BATCH_SIZE), r)
         IN  /\ response' = [response EXCEPT ![b] = r]
             /\ IF out.raised
                THEN /\ task' = [task EXCEPT ![b] = "failed"]
                     /\ UNCHANGED <<segments, completed>>
                ELSE /\ task' = [task EXCEPT ![b] = "done"]
                     /\ segments' = WithBatch(segments, b, OPENAI_BATCH_SIZE, out.batch)
                     /\ completed' = Append(completed, b)
    /\ remote_calls' = remote_calls + 1
    /\ UNCHANGED <<provider_name, vtt_content, target_language, progress_callback, t_pc,
                   input_segments, semaphore, progress_calls, translated_all, t_result>>

\* gather(return_exceptions=True) has every result; the loop re-raises the
\* first exception it meets, otherwise the cues are encoded (lines 155-163).
openai_return ==
    /\ t_pc = "gather"
    /\ provider_name = "openai"
    /\ \A b \in 1..NumTasks : task[b] # "pending"
    /\ IF \E b \in 1..NumTasks : task[b] = "failed"
       THEN /\ t_pc' = "raised"
            /\ UNCHANGED <<translated_all, t_result>>
       ELSE /\ t_pc' = "returned"
            /\ translated_all' = segments
            /\ t_result' = build_vtt_from_segments(segments)
    /\ UNCHANGED <<provider_name, vtt_content, target_language, progress_callback,
                   input_segments, segments, task, response, semaphore, remote_calls,
                   completed, progress_calls>>

(***************************************************************************)
(* The subtitle cache (main.py:50-167, 810-823).                           *)
(***************************************************************************)

\* CACHE_MAX_SIZE is 1000 in the source; scaled down so that the store can
\* fill up.
CACHE_MAX_SIZE == 2

CACHE_EXPIRY_HOURS == 168

\* Number of times the wall clock advances.
MaxTicks == 3

\* Amounts by which the wall clock advances between operations: one second
\* and one whole expiry period, so that ages of exactly the expiry period
\* and of one second more occur.
TickDeltas == {1, CACHE_EXPIRY_HOURS * 3600}

VARIABLES
    subtitle_cache,  \* the dict, as its entries in insertion order
    now,             \* time.time(), in whole seconds
    ticks,           \* number of clock advances so far
    cache_ret        \* log of the last cache operation and what it returned

cvars == <<subtitle_cache, now, ticks, cache_ret>>

\* f"{video_id}_{language}"
cache_key(video_id, language) == video_id \o <<"_">> \o language

\* key in subtitle_cache
HasKey(cache, key) == \E i \in 1..Len(cache) : cache[i].key = key

\* subtitle_cache[key]
Lookup(cache, key) == cache[CHOOSE i \in 1..Len(cache) : cache[i].key = key]

\* The keys of a store, in insertion order.
Keys(cache) == [i \in 1..Len(cache) |-> cache[i].key]

\* del subtitle_cache[key]
DictDel(cache, key) ==
    LET keep(e) == e.key # key
    IN  SelectSeq(cache, keep)

\* A store that adds an entry without looking for its key.
DictSet_append(cache, entry) == Append(cache, entry)

\* subtitle_cache[key] = entry: a present key keeps its position, a new key
\* goes last.
DictSet(cache, entry) ==
    IF HasKey(cache, entry.key)
    THEN [i \in 1..Len(cache) |-> IF cache[i].key = entry.key THEN entry ELSE cache[i]]
    ELSE Append(cache, entry)

\* now - data.get("cached_at", 0) > CACHE_EXPIRY_HOURS * 3600
IsExpired(entry, t) == t - entry.cached_at > CACHE_EXPIRY_HOURS * 3600

\* cleanup_expired_cache at time t: the store without its expired entries,
\* and the number of entries removed.
cleanup_expired_cache(cache, t) ==
    LET fresh(e) == ~IsExpired(e, t)
        kept     == SelectSeq(cache, fresh)
    IN  [cache |-> kept, removed |-> Len(cache) - Len(kept)]

\* get_cached_subtitle that takes an entry of exactly the expiry age for
\* expired.
get_cached_subtitle_expires_at_ttl(cache, t, video_id, language) ==
    LET key == cache_key(video_id, language)
    IN  IF ~HasKey(cache, key)
        THEN [cache |-> cache, found |-> FALSE, data |-> <<>>]
        ELSE IF t - Lookup(cache, key).cached_at >= CACHE_EXPIRY_HOURS * 3600
        THEN [cache |-> DictDel(cache, key), found |-> FALSE, data |-> <<>>]
        ELSE [cache |-> cache, found |-> TRUE, data |-> <<Lookup(cache, key)>>]

\* get_cached_subtitle that restarts the age of the entry it returns.
get_cached_subtitle_refreshing(cache, t, video_id, language) ==
    LET key == cache_key(video_id, language)
    IN  IF ~HasKey(cache, key)
        THEN [cache |-> cache, found |-> FALSE, data |-> <<>>]
        ELSE IF t - Lookup(cache, key).cached_at > CACHE_EXPIRY_HOURS * 3600
        THEN [cache |-> DictDel(cache, key), found |-> FALSE, data |-> <<>>]
        ELSE [cache |-> DictSet(cache, [Lookup(cache, key) EXCEPT !.cached_at = t]),
              found |-> TRUE, data |-> <<Lookup(cache, key)>>]

\* get_cached_subtitle at time t: the store afterwards and the value returned.
get_cached_subtitle(cache, t, video_id, language) ==
    LET key == cache_key(video_id, language)
    IN  IF ~HasKey(cache, key)
        THEN [cache |-> cache, found |-> FALSE, data |-> <<>>]
        ELSE IF t - Lookup(cache, key).cached_at > CACHE_EXPIRY_HOURS * 3600
        THEN [cache |-> DictDel(cache, key), found |-> FALSE, data |-> <<>>]
        ELSE [cache |-> cache, found |-> TRUE, data |-> <<Lookup(cache, key)>>]

\* An eviction that picks the entry stored last.
OldestIndex_newest(cache) ==
    CHOOSE i \in 1..Len(cache) :
        /\ \A j \in 1..Len(cache) : cache[i].cached_at >= cache[j].cached_at
        /\ \A j \in (i + 1)..Len(cache) : cache[j].cached_at < cache[i].cached_at

\* min(subtitle_cache.items(), key=cached_at): the first entry, in insertion
\* order, whose cached_at is smallest.
OldestIndex(cache) ==
    CHOOSE i \in 1..Len(cache) :
        /\ \A j \in 1..Len(cache) : cache[i].cached_at <= cache[j].cached_at
        /\ \A j \in 1..(i - 1) : cache[j].cached_at > cache[i].cached_at

\* while len(subtitle_cache) >= CACHE_MAX_SIZE: delete the oldest entry.
RECURSIVE EvictToFit(_)
EvictToFit(cache) ==
    IF Len(cache) >= CACHE_MAX_SIZE /\ Len(cache) > 0
    THEN EvictToFit(DictDel(cache, cache[OldestIndex(cache)].key))
    ELSE cache

\* A full store that is evicted from without being swept first.
MakeRoom_no_sweep(cache, t) ==
    IF Len(cache) >= CACHE_MAX_SIZE
    THEN EvictToFit(cache)
    ELSE cache

\* Lines 156-160 of set_cached_subtitle: a full store is swept of expired
\* entries and then evicted from until it is below capacity.
MakeRoom(cache, t) ==
    IF Len(cache) >= CACHE_MAX_SIZE
    THEN EvictToFit(cleanup_expired_cache(cache, t).cache)
    ELSE cache

\* A store that keeps the timestamp of an entry it rewrites.
set_cached_subtitle_keep_stamp(cache, t, video_id, vtt, language) ==
    LET room == MakeRoom(cache, t)
        key  == cache_key(video_id, language)
    IN  DictSet(room, [key |-> key, vtt |-> vtt, language |-> language,
                       cached_at |-> IF HasKey(room, key)
                                     THEN Lookup(room, key).cached_at ELSE t])

\* set_cached_subtitle at time t: the store afterwards.
set_cached_subtitle(cache, t, video_id, vtt, language) ==
    LET room == MakeRoom(cache, t)
    IN  DictSet(room, [key |-> cache_key(video_id, language), vtt |-> vtt,
                       language |-> language, cached_at |-> t])

\* Video ids and payloads used to exercise the cache on its own.
VideoIds == {<<"a">>, <<"b">>}

Payloads == {create_vtt_from_segments(SourceCues(n)) : n \in 1..2}

\* The document stored for a video: one cue for "a", two for any other.
PayloadOf(video_id) ==
    create_vtt_from_segments(SourceCues(IF video_id = <<"a">> THEN 1 ELSE 2))

CacheGet(video_id, language) ==
    LET r   == get_cached_subtitle(subtitle_cache, now, video_id, language)
        key == cache_key(video_id, language)
    IN  /\ subtitle_cache' = r.cache
        /\ cache_ret' = [op |-> "get", key |-> key, found |-> r.found, data |-> r.data,
                         age |-> IF HasKey(subtitle_cache, key)
                                 THEN now - Lookup(subtitle_cache, key).cached_at ELSE -1,
                         count |-> 0]
        /\ UNCHANGED <<now, ticks>>

CacheSet(video_id, vtt, language) ==
    /\ subtitle_cache' = set_cached_subtitle(subtitle_cache, now, video_id, vtt, language)
    /\ cache_ret' = [op |-> "set", key |-> cache_key(video_id, language), found |-> FALSE,
                     data |-> <<>>, age |-> -1,
                     count |-> Len(subtitle_cache) - Len(MakeRoom(subtitle_cache, now))]
    /\ UNCHANGED <<now, ticks>>

CacheCleanup ==
    LET r == cleanup_expired_cache(subtitle_cache, now)
    IN  /\ subtitle_cache' = r.cache
        /\ cache_ret' = [op |-> "cleanup", key |-> <<>>, found |-> FALSE, data |-> <<>>,
                         age |-> -1, count |-> r.removed]
        /\ UNCHANGED <<now, ticks>>

\* A count taken once the store has been emptied.
initial_count_after_clear(cache) == 0

\* initial_count = len(subtitle_cache), taken before the store is emptied
\* (line 812).
initial_count(cache) == Len(cache)

\* DELETE /cache: count, empty the store, answer with the count (the check
\* of line 818 cannot fail after dict.clear()).
clear_cache ==
    /\ subtitle_cache' = <<>>
    /\ cache_ret' = [op |-> "clear", key |-> <<>>, found |-> FALSE, data |-> <<>>,
                     age |-> -1, count |-> initial_count(subtitle_cache)]
    /\ UNCHANGED <<now, ticks>>

\* The wall clock advances.
Tick ==
    /\ ticks < MaxTicks
    /\ \E d \in TickDeltas : now' = now + d
    /\ ticks' = ticks + 1
    /\ UNCHANGED <<subtitle_cache, cache_ret>>

NoCacheOp == [op |-> "none", key |-> <<>>, found |-> FALSE, data |-> <<>>, age |-> -1,
              count |-> 0]

\* The store of a freshly started process.
CacheEmpty ==
    /\ subtitle_cache = <<>>
    /\ now = 0
    /\ ticks = 0
    /\ cache_ret = NoCacheOp

(***************************************************************************)
(* The streaming endpoints /transcribe and /summarize (main.py:321-807).   *)
(*                                                                         *)
(* One action is the code of a producer between two points where it really *)
(* suspends: the executor calls (download, compression) and the provider   *)
(* calls (transcribe, translate, summarize).  queue.put on the unbounded   *)
(* asyncio.Queue never suspends.                                           *)
(***************************************************************************)

\* The requests in flight.
Reqs == {"r1", "r2"}

\* URLs are sequences of lexemes: the markers get_video_id looks for, the
\* separators that end an id, and other pieces of text.
UrlWatch == <<"https://www.youtube.com/watch?", "v=", "a">>

UrlShort == <<"https://", "youtu.be/", "b", "&", "t=1">>

UrlChannel == <<"https://www.youtube.com/", "@", "c">>

Urls == {UrlWatch, UrlShort, UrlChannel}

\* Provider names a request can carry: the two registered ones
\* (providers/__init__.py) and one ProviderFactory.get_provider does not know.
Providers == {"openai", "groq", "unregistered"}

Registered(name) == name \in {"openai", "groq"}

\* A LiteLLMProvider subclass (groq.py) as opposed to OpenAIProvider.
IsLiteLLM(name) == name = "groq"

\* get_video_id: the first marker (v=, /v/, youtu.be/) that is followed by at
\* least one character other than & and whitespace; the id is the longest
\* run of such characters after it.
IdMarkers == {"v=", "/v/", "youtu.be/"}

IdStops == {"&"} \cup WS

RECURSIVE IdEnd(_, _)
IdEnd(url, i) == IF i + 1 <= Len(url) /\ url[i + 1] \notin IdStops THEN IdEnd(url, i + 1) ELSE i

get_video_id(url) ==
    LET starts == {i \in 1..(Len(url) - 1) : url[i] \in IdMarkers /\ url[i + 1] \notin IdStops}
    IN  IF starts = {}
        THEN [found |-> FALSE, id |-> <<>>]
        ELSE LET i == CHOOSE k \in starts : \A j \in starts : k <= j
             IN  [found |-> TRUE, id |-> SubSeq(url, i + 1, IdEnd(url, i + 1))]

\* Items put on a request's queue.
Progress(stage, progress) ==
    [action |-> "progress", stage |-> stage, progress |-> progress, data |-> <<>>,
     cached |-> FALSE]

TranscriptionResult(vtt, cached) ==
    [action |-> "transcription_result", stage |-> "", progress |-> 0, data |-> vtt,
     cached |-> cached]

SummaryResult(summary, cached) ==
    [action |-> "summary_result", stage |-> "", progress |-> 0, data |-> summary,
     cached |-> cached]

ErrorEvent == [action |-> "error", stage |-> "", progress |-> 0, data |-> <<>>, cached |-> FALSE]

\* The sentinel None.
Sentinel == [action |-> "None", stage |-> "", progress |-> 0, data |-> <<>>, cached |-> FALSE]

\* Temp files: get_temp_audio_path() returns a fresh name; download_audio
\* may add ".mp3" to the name it was given.
NoPath == <<>>

TempPath(r, kind) == <<r, kind>>

VARIABLES
    run,        \* request -> the request and the locals of its producer
    queue,      \* request -> items enqueued and not yet dequeued
    delivered,  \* request -> items the consumer has yielded to the caller
    closed,     \* request -> the consumer has left its loop
    files,      \* temp files that exist on disk
    bg_tasks    \* request -> cleanup_expired_cache tasks still to run

svars == <<run, queue, delivered, closed, files, bg_tasks>>

IdleRun ==
    [pc |-> "idle", endpoint |-> "", video_url |-> <<>>, lang |-> <<>>, provider |-> "",
     check_cache |-> FALSE, video_id |-> [found |-> FALSE, id |-> <<>>],
     final_vtt |-> <<>>, audio_path |-> NoPath, audio_path_ref |-> NoPath,
     compressed_path |-> NoPath, cached |-> FALSE,
     raised |-> "", outcomes |-> <<>>, source |-> <<>>, wrote |-> {},
     had |-> FALSE, sent |-> <<>>]

StreamIdle ==
    /\ run = [r \in Reqs |-> IdleRun]
    /\ queue = [r \in Reqs |-> <<>>]
    /\ delivered = [r \in Reqs |-> <<>>]
    /\ closed = [r \in Reqs |-> FALSE]
    /\ files = {}
    /\ bg_tasks = [r \in Reqs |-> 0]

\* Documents provider.transcribe can return: three cues, or no cue at all.
TranscribedDocs == {create_vtt_from_segments(SourceCues(n)) : n \in {0, 3}}

\* Outcomes of download_audio: it raises, or it returns the name it was given
\* with ".mp3" added (line 207) or as it was (line 209); the file is larger
\* than MAX_AUDIO_SIZE_BYTES or not.
DownloadOutcomes ==
    {[raised |-> TRUE, ext |-> "", large |-> FALSE]}
    \cup {[raised |-> FALSE, ext |-> e, large |-> l] : e \in {"audio.mp3", "audio"}, l \in BOOLEAN}

\* Outcomes of compress_audio: it returns, or it raises with or without an
\* output file left behind (lines 257-264).
CompressOutcomes == {"ok", "raise", "raise_output_left"}

\* Remote outcomes per batch that a streamed translation is run against.
BatchOutcomes == {"ok", "raise"}

LiteLLMResponse(texts, kind) ==
    IF kind = "ok"
    THEN [kind |-> "ok", translations |-> Answer(texts, Len(texts), FALSE)]
    ELSE [kind |-> "raise", translations |-> <<>>]

OpenAIResponse(texts, kind) ==
    IF kind = "ok"
    THEN [kind |-> "ok", content |-> Join(Answer(texts, Len(texts), FALSE), NL)]
    ELSE [kind |-> "raise", content |-> <<>>]

\* LiteLLMProvider.translate from call to return, the remote call of batch b
\* resolving as kinds[b] (litellm_base.py:188-300); parsed is what
\* parse_vtt_segments makes of vtt.
LiteLLMTranslate(vtt, parsed, lang, kinds) ==
    LET segs == parsed.segs
        k    == NumBatches(Len(segs), BATCH_SIZE)
        outs == [b \in 1..k |->
                   translate_batch(BatchOf(segs, b, BATCH_SIZE),
                                   LiteLLMResponse(Texts(BatchOf(segs, b, BATCH_SIZE)), kinds[b]))]
    IN  IF IsOriginal(lang)
        THEN [raised |-> FALSE, vtt |-> vtt, callbacks |-> <<>>]
        ELSE IF ~parsed.ok
        THEN [raised |-> TRUE, vtt |-> <<>>, callbacks |-> <<>>]
        ELSE IF NoSegments(segs)
        THEN [raised |-> FALSE, vtt |-> vtt, callbacks |-> <<>>]
        ELSE IF \E b \in 1..k : outs[b].raised
        THEN [raised |-> TRUE, vtt |-> <<>>, callbacks |-> <<>>]
        ELSE [raised |-> FALSE,
              vtt |-> build_vtt_from_segments(Flatten([b \in 1..k |-> outs[b].batch])),
              callbacks |-> <<100>>]

\* OpenAIProvider.translate from call to return (openai.py:107-163).
OpenAITranslate(vtt, parsed, lang, kinds) ==
    LET segs == parsed.segs
        k    == NumBatches(Len(segs), OPENAI_BATCH_SIZE)
        outs == [b \in 1..k |->
                   openai_translate_batch(BatchOf(segs, b, OPENAI_BATCH_SIZE),
                                          OpenAIResponse(Texts(BatchOf(segs, b, OPENAI_BATCH_SIZE)),
                                                         kinds[b]))]
    IN  IF ~parsed.ok
        THEN [raised |-> TRUE, vtt |-> <<>>, callbacks |-> <<>>]
        ELSE IF NoSegments(segs) \/ IsOriginal(lang)
        THEN [raised |-> FALSE, vtt |-> vtt, callbacks |-> <<>>]
        ELSE IF \E b \in 1..k : outs[b].raised
        THEN [raised |-> TRUE, vtt |-> <<>>, callbacks |-> <<>>]
        ELSE [raised |-> FALSE,
              vtt |-> build_vtt_from_segments(Flatten([b \in 1..k |-> outs[b].batch])),
              callbacks |-> <<>>]

\* Number of batches the provider cuts the cues into.
ProviderBatches(provider, parsed) ==
    NumBatches(Len(parsed.segs), IF IsLiteLLM(provider) THEN BATCH_SIZE ELSE OPENAI_BATCH_SIZE)

ProviderTranslate(provider, vtt, parsed, lang, kinds) ==
    IF IsLiteLLM(provider) THEN LiteLLMTranslate(vtt, parsed, lang, kinds)
    ELSE OpenAITranslate(vtt, parsed, lang, kinds)

\* What the remote call of _generate_summary does: it returns a text, it
\* returns an empty content, or it raises.
SummaryCalls == {"text", "empty", "raise"}

\* The 'summary' _generate_summary returns (litellm_base.py:369-391): the
\* except clause turns a failed call into a text.
generate_summary(call) ==
    CASE call = "text"  -> <<"summary">>
      [] call = "empty" -> <<"No summary generated">>
      [] call = "raise" -> <<"Error: e">>

\* Outcomes of provider.summarize.  LiteLLMProvider.summarize gathers
\* _generate_summary, which returns the text, 'No summary generated', or
\* 'Error: ...' when its remote call raised (litellm_base.py:369-391); only
\* an exception raised before that try block (load_prompt, format_prompt)
\* escapes.  OpenAIProvider defines no summarize: what the base class returns
\* has no .get (main.py:755).
SummarizeOutcomes(provider) ==
    IF IsLiteLLM(provider)
    THEN {[raised |-> FALSE, summary |-> generate_summary(call)] : call \in SummaryCalls}
         \cup {[raised |-> TRUE, summary |-> <<>>]}
    ELSE {[raised |-> TRUE, summary |-> <<>>]}

\* The except clause of a producer (lines 560-561, 786-789).
ExceptEvents_silent == <<>>

ExceptEvents == <<ErrorEvent>>

\* The finally clause of the /transcribe producer (lines 562-574) removes the
\* file audio_path_ref names, if it exists.
TranscribeFinally(rs, fs) == IF rs.audio_path_ref # NoPath THEN fs \ {rs.audio_path_ref} ELSE fs

\* The finally clause of the /summarize producer (lines 790-797).
SummarizeFinally(rs, fs) == IF rs.audio_path # NoPath THEN fs \ {rs.audio_path} ELSE fs

\* A success path that reports completion after its result.
TranscribeResultEvents_then_progress(vtt) ==
    <<TranscriptionResult(vtt, FALSE), Progress("translating", 100)>>

\* What the success path of /transcribe enqueues last (lines 550-559).
TranscribeResultEvents(vtt) == <<TranscriptionResult(vtt, FALSE)>>

\* What the success path of /summarize enqueues last (lines 758-784).
SummaryResultEvents(summary, cached) ==
    <<Progress("summarizing", 100), SummaryResult(summary, cached)>>

\* progress_callback of /transcribe: 75 + int(progress * 0.2).
\* The provider's percentage added to the base without scaling.
OverallProgress_unscaled(progress) == 75 + progress

OverallProgress(progress) == 75 + (progress * 2) \div 10

\* A producer step: what it leaves behind.
Step(rs, cache, events, fs, bg) ==
    [run |-> rs, cache |-> cache, events |-> events, files |-> fs, bg |-> bg]

\* An except clause that takes back what the run had stored.
TranscribeFail_rolls_back(rs, cache, fs, stage) ==
    LET keep(e) == e.key \notin rs.wrote
    IN  Step([rs EXCEPT !.pc = "done", !.raised = stage], SelectSeq(cache, keep),
             ExceptEvents \o <<Sentinel>>, TranscribeFinally(rs, fs), 0)

\* An except clause that is not followed by the put(None) of the finally
\* clause.
TranscribeFail_no_sentinel(rs, cache, fs, stage) ==
    Step([rs EXCEPT !.pc = "done", !.raised = stage], cache,
         ExceptEvents, TranscribeFinally(rs, fs), 0)

\* except + finally of the /transcribe producer after `stage` raised.
TranscribeFail(rs, cache, fs, stage) ==
    Step([rs EXCEPT !.pc = "done", !.raised = stage], cache,
         ExceptEvents \o <<Sentinel>>, TranscribeFinally(rs, fs), 0)

\* A finish that stores its result whether the URL gave an id or not.
TranscribeFinish_stores_without_id(rs, cache, fs, t) ==
    LET vid == rs.video_id
    IN  Step([rs EXCEPT !.pc = "done", !.wrote = @ \cup {cache_key(vid.id, rs.lang)}],
             set_cached_subtitle(cache, t, vid.id, rs.final_vtt, rs.lang),
             TranscribeResultEvents(rs.final_vtt) \o <<Sentinel>>,
             TranscribeFinally(rs, fs),
             1)

\* A finish that stores only a translation none of whose batches failed.
TranscribeFinish_skips_degraded(rs, cache, fs, t) ==
    LET vid   == rs.video_id
        store == vid.found /\ \A b \in DOMAIN rs.outcomes : rs.outcomes[b] = "ok"
    IN  Step([rs EXCEPT !.pc = "done",
                        !.wrote = IF store THEN @ \cup {cache_key(vid.id, rs.lang)} ELSE @],
             IF store
             THEN set_cached_subtitle(cache, t, vid.id, rs.final_vtt, rs.lang)
             ELSE cache,
             TranscribeResultEvents(rs.final_vtt) \o <<Sentinel>>,
             TranscribeFinally(rs, fs),
             IF vid.found THEN 1 ELSE 0)

\* Lines 546-574: store under the target language, enqueue the result, clean
\* up, enqueue the sentinel.
TranscribeFinish(rs, cache, fs, t) ==
    LET vid == rs.video_id
    IN  Step([rs EXCEPT !.pc = "done",
                        !.wrote = IF vid.found THEN @ \cup {cache_key(vid.id, rs.lang)} ELSE @],
             IF vid.found
             THEN set_cached_subtitle(cache, t, vid.id, rs.final_vtt, rs.lang)
             ELSE cache,
             TranscribeResultEvents(rs.final_vtt) \o <<Sentinel>>,
             TranscribeFinally(rs, fs),
             IF vid.found THEN 1 ELSE 0)

\* Lines 494-507 once final_vtt holds the transcription: either the producer
\* suspends in provider.translate, or it runs to its end.
TranscribeTail(rs, cache, fs, t) ==
    IF rs.lang # ORIGINAL
    THEN Step([rs EXCEPT !.pc = "translate"], cache, <<Progress("translating", 75)>>, fs, 0)
    ELSE TranscribeFinish(rs, cache, fs, t)

\* One queue for the whole application, as a module-level queue would be.
QueueOf_module_level(r) == "r1"

\* The queue of a request: streaming_logic creates it at its start (lines
\* 324, 591) and only the producer and the loop of that call refer to it.
QueueOf(r) == r

\* The effect of a producer step on the state.  sent records every item the
\* producer has passed to queue.put.
Commit(r, st) ==
    /\ run' = [run EXCEPT ![r] = [st.run EXCEPT !.sent = run[r].sent \o st.events]]
    /\ queue' = [queue EXCEPT ![QueueOf(r)] = @ \o st.events]
    /\ subtitle_cache' = st.cache
    /\ files' = st.files
    /\ bg_tasks' = [bg_tasks EXCEPT ![r] = @ + st.bg]
    /\ UNCHANGED <<delivered, closed, now, ticks, cache_ret>>

NotCached(cache) == [cache |-> cache, found |-> FALSE, data |-> <<>>]

\* A cache hit reported as a fresh result.
CacheHitEvents_not_flagged(vtt) == <<TranscriptionResult(vtt, FALSE), Sentinel>>

\* What the cache-hit path of /transcribe enqueues before it returns
\* (lines 348-359).
CacheHitEvents(vtt) == <<TranscriptionResult(vtt, TRUE), Sentinel>>

\* A producer that looks in the store whatever the request says.
ShouldReadCache_always(check_cache, vid) == vid.found

\* request.check_cache and video_id (lines 344, 377)
ShouldReadCache(check_cache, vid) == check_cache /\ vid.found

\* POST /transcribe: the producer from its start to its first suspension
\* (lines 329-418), or to its end on a cache hit, an unknown provider, or a
\* cached transcription that needs no translation.
transcribe_start(r, url, lang, provider, check_cache) ==
    /\ run[r].pc = "idle"
    /\ LET vid  == get_video_id(url)
           rs   == [IdleRun EXCEPT !.endpoint = "transcribe", !.video_url = url,
                                   !.lang = lang, !.provider = provider,
                                   !.check_cache = check_cache, !.video_id = vid,
                                   !.had = vid.found
                                           /\ HasKey(subtitle_cache, cache_key(vid.id, lang))]
           e0   == <<Progress("initializing", 10)>>
           g1   == IF ShouldReadCache(check_cache, vid)
                   THEN get_cached_subtitle(subtitle_cache, now, vid.id, lang)
                   ELSE NotCached(subtitle_cache)
           g2   == IF ShouldReadCache(check_cache, vid)
                   THEN get_cached_subtitle(g1.cache, now, vid.id, ORIGINAL)
                   ELSE NotCached(g1.cache)
           e2   == IF g2.found THEN e0 \o <<Progress("cached", 70)>> ELSE e0
       IN  IF g1.found
           THEN Commit(r, Step([rs EXCEPT !.pc = "done", !.cached = TRUE], g1.cache,
                               e0 \o CacheHitEvents(g1.data[1].vtt) \o <<Sentinel>>,
                               files, 0))
           ELSE IF ~Registered(provider)
           THEN Commit(r, Step([rs EXCEPT !.pc = "done"], g1.cache,
                               e0 \o <<ErrorEvent, Sentinel>> \o <<Sentinel>>, files, 0))
           ELSE IF g2.found /\ Len(g2.data[1].vtt) > 0
           THEN LET rs2  == [rs EXCEPT !.final_vtt = g2.data[1].vtt, !.source = g2.data[1].vtt]
                    tail == TranscribeTail(rs2, g2.cache, files, now)
                IN  Commit(r, [tail EXCEPT !.events = e2 \o @])
           ELSE Commit(r, Step([rs EXCEPT !.pc = "download",
                                          !.audio_path = TempPath(r, "audio"),
                                          !.audio_path_ref = TempPath(r, "audio")],
                               g2.cache, e2 \o <<Progress("downloading", 10)>>, files, 0))

\* download_audio has returned or raised (lines 416-467).
transcribe_download(r, o) ==
    /\ run[r].pc = "download"
    /\ run[r].endpoint = "transcribe"
    /\   LET rs  == run[r]
             p   == TempPath(r, o.ext)
             rs1 == [rs EXCEPT !.audio_path = p]
             e1  == <<Progress("downloading", 30)>>
         IN  IF o.raised
             THEN Commit(r, TranscribeFail(rs, subtitle_cache, files, "download"))
             ELSE IF o.large
             THEN Commit(r, Step([rs1 EXCEPT !.pc = "compress",
                                             !.compressed_path =
                                                 TempPath(r, "compressed.mp3")],
                                 subtitle_cache, e1 \o <<Progress("downloading", 100)>>,
                                 files \cup {p}, 0))
             ELSE Commit(r, Step([rs1 EXCEPT !.pc = "transcribe"], subtitle_cache,
                                 e1 \o <<Progress("transcribing", 35)>>, files \cup {p}, 0))

\* compress_audio has returned or raised (lines 448-467).
transcribe_compress(r, o) ==
    /\ run[r].pc = "compress"
    /\ run[r].endpoint = "transcribe"
    /\   LET rs == run[r]
         IN  IF o = "ok"
             THEN Commit(r, Step([rs EXCEPT !.pc = "transcribe",
                                            !.audio_path = rs.compressed_path,
                                            !.audio_path_ref = rs.compressed_path],
                                 subtitle_cache, <<Progress("transcribing", 35)>>,
                                 (files \cup {rs.compressed_path}) \ {rs.audio_path}, 0))
             ELSE Commit(r, TranscribeFail(rs, subtitle_cache,
                                           IF o = "raise_output_left"
                                           THEN files \cup {rs.compressed_path} ELSE files,
                                           "compress"))

\* provider.transcribe has returned or raised (lines 469-507).
transcribe_transcribe(r, docs) ==
    /\ run[r].pc = "transcribe"
    /\ run[r].endpoint = "transcribe"
    /\ LET rs == run[r]
       IN  \/ Commit(r, TranscribeFail(rs, subtitle_cache, files, "transcribe"))
           \/ \E doc \in docs :
                LET vid  == rs.video_id
                    rs1  == [rs EXCEPT !.final_vtt = doc, !.source = doc,
                                       !.wrote = IF vid.found
                                                 THEN @ \cup {cache_key(vid.id, ORIGINAL)}
                                                 ELSE @]
                    c1   == IF vid.found
                            THEN set_cached_subtitle(subtitle_cache, now, vid.id, doc, ORIGINAL)
                            ELSE subtitle_cache
                    tail == TranscribeTail(rs1, c1, files, now)
                IN  Commit(r, [tail EXCEPT !.events = <<Progress("transcribing", 70)>> \o @,
                                           !.bg = @ + (IF vid.found THEN 1 ELSE 0)])

\* provider.translate has returned or raised (lines 524-574).
transcribe_translate(r, batch_outcomes) ==
    /\ run[r].pc = "translate"
    /\ run[r].endpoint = "transcribe"
    /\ LET rs     == run[r]
           parsed == parse_vtt_segments(rs.final_vtt)
           k      == ProviderBatches(rs.provider, parsed)
       IN  \E kinds \in [1..k -> batch_outcomes] :
             LET res  == ProviderTranslate(rs.provider, rs.final_vtt, parsed, rs.lang, kinds)
                 rs1  == [rs EXCEPT !.outcomes = kinds]
                 cbs  == [i \in 1..Len(res.callbacks) |->
                            Progress("translating", OverallProgress(res.callbacks[i]))]
                 fin  == TranscribeFinish([rs1 EXCEPT !.final_vtt = res.vtt],
                                          subtitle_cache, files, now)
             IN  IF res.raised
                 THEN Commit(r, TranscribeFail(rs1, subtitle_cache, files, "translate"))
                 ELSE Commit(r, [fin EXCEPT !.events =
                                     cbs \o <<Progress("translating", 95)>> \o @])

\* except + finally of the /summarize producer after `stage` raised.
SummarizeFail(rs, cache, fs, stage) ==
    Step([rs EXCEPT !.pc = "done", !.raised = stage], cache,
         ExceptEvents \o <<Sentinel>>, SummarizeFinally(rs, fs), 0)

\* POST /summarize: the producer from its start to its first suspension
\* (lines 593-680, or 593-753 when the transcription is cached).
summarize_start(r, url, provider) ==
    /\ run[r].pc = "idle"
    /\ LET vid == get_video_id(url)
           rs  == [IdleRun EXCEPT !.endpoint = "summarize", !.video_url = url,
                                  !.provider = provider, !.video_id = vid]
           e0  == <<Progress("initializing", 10)>>
           g   == IF vid.found
                  THEN get_cached_subtitle(subtitle_cache, now, vid.id, ORIGINAL)
                  ELSE NotCached(subtitle_cache)
       IN  IF ~Registered(provider)
           THEN Commit(r, Step([rs EXCEPT !.pc = "done"], g.cache,
                               e0 \o <<ErrorEvent>> \o <<Sentinel>>, files, 0))
           ELSE IF g.found
           THEN Commit(r, Step([rs EXCEPT !.pc = "summarize", !.cached = TRUE,
                                          !.source = g.data[1].vtt],
                               g.cache, e0 \o <<Progress("cached", 15)>>, files, 0))
           ELSE Commit(r, Step([rs EXCEPT !.pc = "download",
                                          !.audio_path = TempPath(r, "audio")],
                               g.cache, e0 \o <<Progress("downloading", 15)>>, files, 0))

\* download_audio has returned or raised (lines 678-714).
summarize_download(r, o) ==
    /\ run[r].pc = "download"
    /\ run[r].endpoint = "summarize"
    /\   LET rs  == run[r]
             p   == TempPath(r, o.ext)
             rs1 == [rs EXCEPT !.audio_path = p]
             e1  == <<Progress("downloading", 35)>>
         IN  IF o.raised
             THEN Commit(r, SummarizeFail(rs, subtitle_cache, files, "download"))
             ELSE IF o.large
             THEN Commit(r, Step([rs1 EXCEPT !.pc = "compress",
                                             !.compressed_path =
                                                 TempPath(r, "compressed.mp3")],
                                 subtitle_cache, e1, files \cup {p}, 0))
             ELSE Commit(r, Step([rs1 EXCEPT !.pc = "transcribe"], subtitle_cache,
                                 e1 \o <<Progress("transcribing", 45)>>, files \cup {p}, 0))

\* compress_audio has returned or raised (lines 698-714).
summarize_compress(r, o) ==
    /\ run[r].pc = "compress"
    /\ run[r].endpoint = "summarize"
    /\   LET rs == run[r]
         IN  IF o = "ok"
             THEN Commit(r, Step([rs EXCEPT !.pc = "transcribe",
                                            !.audio_path = rs.compressed_path],
                                 subtitle_cache, <<Progress("transcribing", 45)>>,
                                 (files \cup {rs.compressed_path}) \ {rs.audio_path}, 0))
             ELSE Commit(r, SummarizeFail(rs, subtitle_cache,
                                          IF o = "raise_output_left"
                                          THEN files \cup {rs.compressed_path} ELSE files,
                                          "compress"))

\* provider.transcribe has returned or raised (lines 721-753).
summarize_transcribe(r, docs) ==
    /\ run[r].pc = "transcribe"
    /\ run[r].endpoint = "summarize"
    /\ LET rs == run[r]
       IN  \/ Commit(r, SummarizeFail(rs, subtitle_cache, files, "transcribe"))
           \/ \E doc \in docs :
                LET vid == rs.video_id
                IN  Commit(r, Step([rs EXCEPT !.pc = "summarize", !.source = doc,
                                              !.wrote = IF vid.found
                                                        THEN @ \cup {cache_key(vid.id, ORIGINAL)}
                                                        ELSE @],
                                   IF vid.found
                                   THEN set_cached_subtitle(subtitle_cache, now, vid.id, doc,
                                                            ORIGINAL)
                                   ELSE subtitle_cache,
                                   <<Progress("transcribing", 70)>>, files, 0))

\* provider.summarize has returned or raised (lines 746-797).
summarize_summarize(r, o) ==
    /\ run[r].pc = "summarize"
    /\ run[r].endpoint = "summarize"
    /\ o \in SummarizeOutcomes(run[r].provider)
    /\   LET rs == run[r]
         IN  IF o.raised
             THEN Commit(r, SummarizeFail(rs, subtitle_cache, files, "summarize"))
             ELSE Commit(r, Step([rs EXCEPT !.pc = "done"], subtitle_cache,
                                 SummaryResultEvents(o.summary, rs.cached) \o <<Sentinel>>,
                                 SummarizeFinally(rs, files), 0))

(***************************************************************************)
(* Request validation (main.py:56-105): FastAPI builds the request model   *)
(* from the body before it calls the endpoint, and answers 422 when a      *)
(* field validator raises.                                                 *)
(***************************************************************************)

\* A URL of another site that carries a v= parameter, and the empty URL.
UrlOther == <<"https://vimeo.com/watch?", "v=", "a">>

RequestUrls == Urls \cup {UrlOther, <<>>}

\* API keys of 0, 9 and 10 characters.
ApiKeys == {[i \in 1..n |-> "k"] : n \in {0, 9, 10}}

ValidKey == [i \in 1..10 |-> "k"]

\* The lexemes in which "youtube.com" occurs, and those in which "youtu.be"
\* occurs.
HasYouTubeCom(lexeme) ==
    lexeme \in {"https://www.youtube.com/watch?", "https://www.youtube.com/"}

HasYouTuBe(lexeme) == lexeme = "youtu.be/"

\* validate_api_key returns (TRUE) or raises (FALSE).
validate_api_key(v) == ~(Len(v) = 0 \/ Len(v) < 10)

\* validate_video_url:  not v or "youtube.com" not in v and "youtu.be" not in v
validate_video_url(v) ==
    ~(\/ Len(v) = 0
      \/ /\ ~\E i \in 1..Len(v) : HasYouTubeCom(v[i])
         /\ ~\E i \in 1..Len(v) : HasYouTuBe(v[i]))

\* ProviderFactory.list_providers()
list_providers == {"openai", "groq"}

\* A validator that accepts every provider name.
validate_provider_any(v) == TRUE

validate_provider(v) == v \in list_providers

\* The 422 answer: the endpoint function is not called.
Rejected(r, endpoint, url, provider) ==
    /\ run[r].pc = "idle"
    /\ run' = [run EXCEPT ![r] = [IdleRun EXCEPT !.pc = "rejected", !.endpoint = endpoint,
                                                  !.video_url = url, !.provider = provider]]
    /\ UNCHANGED <<queue, delivered, closed, files, bg_tasks, cvars>>

\* POST /transcribe
post_transcribe(r, url, api_key, lang, provider, check_cache) ==
    IF validate_api_key(api_key) /\ validate_video_url(url) /\ validate_provider(provider)
    THEN transcribe_start(r, url, lang, provider, check_cache)
    ELSE Rejected(r, "transcribe", url, provider)

\* POST /summarize
post_summarize(r, url, api_key, provider) ==
    IF validate_api_key(api_key) /\ validate_video_url(url) /\ validate_provider(provider)
    THEN summarize_start(r, url, provider)
    ELSE Rejected(r, "summarize", url, provider)

\* The consumer loop of streaming_logic (lines 578-582, 801-805): take the
\* next item; None ends the stream, anything else is yielded.
consume(r) ==
    /\ ~closed[r]
    /\ Len(queue[QueueOf(r)]) > 0
    /\ queue' = [queue EXCEPT ![QueueOf(r)] = Tail(@)]
    /\ IF Head(queue[QueueOf(r)]) = Sentinel
       THEN /\ closed' = [closed EXCEPT ![r] = TRUE]
            /\ UNCHANGED delivered
       ELSE /\ delivered' = [delivered EXCEPT ![r] = Append(@, Head(queue[QueueOf(r)]))]
            /\ UNCHANGED closed
    /\ UNCHANGED <<run, files, bg_tasks, cvars>>

\* A background task added at line 492 or 548 runs once the response has
\* been sent.
background_cleanup(r) ==
    /\ closed[r]
    /\ bg_tasks[r] > 0
    /\ bg_tasks' = [bg_tasks EXCEPT ![r] = @ - 1]
    /\ subtitle_cache' = cleanup_expired_cache(subtitle_cache, now).cache
    /\ UNCHANGED <<run, queue, delivered, closed, files, now, ticks, cache_ret>>

(***************************************************************************)
(* cleanup_expired_cache as a background task (main.py:492, 548).          *)
(*                                                                         *)
(* cleanup_expired_cache is a plain function, and a background task that   *)
(* is a plain function is run in a worker thread, while get, set and clear *)
(* run on the event loop thread.  The interpreter can switch threads       *)
(* between any two bytecodes of the worker; the steps kept apart here are  *)
(* the list comprehension (taken as one step) and each del of the loop     *)
(* that follows.                                                           *)
(***************************************************************************)
VARIABLES
    cleaner     \* the worker thread: where it is and the keys it still has to delete

kvars == <<cleaner>>

CleanerIdle == [pc |-> "idle", expired |-> <<>>, removed |-> 0]

\* The keys of the expired entries, in insertion order (lines 129-133).
ExpiredKeys(cache, t) ==
    LET old(e) == IsExpired(e, t)
    IN  Keys(SelectSeq(cache, old))

\* A worker thread starts a scheduled cleanup and builds its list.
cleanup_scan ==
    /\ cleaner.pc # "delete"
    /\ cleaner' = [pc      |-> IF ExpiredKeys(subtitle_cache, now) = <<>> THEN "idle" ELSE "delete",
                   expired |-> ExpiredKeys(subtitle_cache, now),
                   removed |-> 0]
    /\ UNCHANGED cvars

\* One iteration of `for video_id in expired: del subtitle_cache[video_id]`;
\* del of a key that is no longer there raises KeyError and ends the task.
cleanup_delete ==
    /\ cleaner.pc = "delete"
    /\ LET k == Head(cleaner.expired)
       IN  IF HasKey(subtitle_cache, k)
           THEN /\ subtitle_cache' = DictDel(subtitle_cache, k)
                /\ cleaner' = [pc      |-> IF Len(cleaner.expired) = 1 THEN "idle" ELSE "delete",
                               expired |-> Tail(cleaner.expired),
                               removed |-> cleaner.removed + 1]
           ELSE /\ cleaner' = [cleaner EXCEPT !.pc = "raised"]
                /\ UNCHANGED subtitle_cache
    /\ UNCHANGED <<now, ticks, cache_ret>>

(***************************************************************************)
(* download_audio (main.py:170-235), one call on an executor thread.       *)
(***************************************************************************)

\* Attempts of the for loop (line 171).
max_retries == 3

\* Messages a yt_dlp DownloadError, or another exception, can carry, as
\* sequences of lexemes.
Msg403 == <<"ERROR: ", "HTTP Error ", "403">>

MsgForbidden == <<"ERROR: ", "Forbidden">>

MsgUnavailable == <<"ERROR: ", "Video unavailable">>

Messages == {Msg403, MsgForbidden, MsgUnavailable}

\* str.lower() on a lexeme.
LowerLexeme(x) ==
    CASE x = "ERROR: "           -> "error: "
      [] x = "HTTP Error "       -> "http error "
      [] x = "Forbidden"         -> "forbidden"
      [] x = "Video unavailable" -> "video unavailable"
      [] OTHER                   -> x

lower(msg) == [i \in 1..Len(msg) |-> LowerLexeme(msg[i])]

\* A handler that retries after any DownloadError.
IsForbidden_any(error_msg) == TRUE

\* "403" in error_msg or "forbidden" in error_msg (line 223).
IsForbidden(error_msg) ==
    \/ \E i \in 1..Len(error_msg) : error_msg[i] = "403"
    \/ \E i \in 1..Len(error_msg) : error_msg[i] = "forbidden"

\* What one pass of the try block can do: ydl.download raises a
\* DownloadError or another exception, or it returns and the audio is at
\* output_path + ".mp3", at output_path, under another name that the
\* directory listing finds, or nowhere.
AttemptOutcomes ==
    {[kind |-> "DownloadError", msg |-> m] : m \in Messages}
    \cup {[kind |-> "Exception", msg |-> Msg403]}
    \cup {[kind |-> "downloaded", msg |-> <<f>>] : f \in {".mp3", "", "listed", "missing"}}

NotFound == [kind |-> "Exception", msg |-> <<"Audio file not found after download">>]

NoError == [kind |-> "None", msg |-> <<>>]

VARIABLES
    output_path,   \* argument: the name the audio is to be written under
    attempt,       \* number of passes of the for loop started so far
    retry_delay,   \* local: seconds to sleep before the next pass
    last_error,    \* local: the last DownloadError caught
    dl_pc,         \* "unused", "try", "sleep", "returned" or "raised"
    dl_log,        \* the attempts and the sleeps of the call, in order
    dl_result      \* the path returned or the exception raised

avars == <<output_path, attempt, retry_delay, last_error, dl_pc, dl_log, dl_result>>

DownloadUnused ==
    /\ output_path = NoPath
    /\ attempt = 0
    /\ retry_delay = 2
    /\ last_error = NoError
    /\ dl_pc = "unused"
    /\ dl_log = <<>>
    /\ dl_result = <<>>

\* One pass of the try block with its except clauses, up to the sleep.
download_attempt(o) ==
    /\ dl_pc = "try"
    /\ attempt' = attempt + 1
    /\ dl_log' = Append(dl_log, [ev |-> "attempt", error |-> o, secs |-> 0])
    /\ CASE o.kind = "downloaded" /\ o.msg = <<"missing">> ->
              /\ dl_pc' = "raised"
              /\ dl_result' = <<NotFound>>
              /\ UNCHANGED last_error
         [] o.kind = "downloaded" /\ o.msg # <<"missing">> ->
              /\ dl_pc' = "returned"
              /\ dl_result' = <<output_path \o o.msg>>
              /\ UNCHANGED last_error
         [] o.kind = "DownloadError" ->
              /\ last_error' = o
              /\ IF IsForbidden(lower(o.msg))
                 THEN dl_pc' = "sleep" /\ UNCHANGED dl_result
                 ELSE dl_pc' = "raised" /\ dl_result' = <<o>>
         [] o.kind = "Exception" ->
              /\ dl_pc' = "raised"
              /\ dl_result' = <<o>>
              /\ UNCHANGED last_error
    /\ UNCHANGED <<output_path, retry_delay>>

\* time.sleep(retry_delay) returns and the delay doubles (lines 225-226);
\* the loop goes on to its next pass or, after the last one, falls through
\* to the raise of line 235.
retry_sleep ==
    /\ dl_pc = "sleep"
    /\ dl_log' = Append(dl_log, [ev |-> "sleep", error |-> NoError, secs |-> retry_delay])
    /\ retry_delay' = retry_delay * 2
    /\ IF attempt < max_retries
       THEN dl_pc' = "try" /\ UNCHANGED dl_result
       ELSE dl_pc' = "raised" /\ dl_result' = <<last_error>>
    /\ UNCHANGED <<output_path, attempt, last_error>>

(***************************************************************************)
(* The cue codec applied to documents and times (vtt_utils.py).            *)
(***************************************************************************)

\* Largest number of cues in a document handed to the codec.
MaxDocCues == 2

\* How often a document goes through parse and build.
MaxPasses == 2

VARIABLES
    written,    \* the cues the document was written from
    document,   \* the document handed to the first parse_vtt_segments call
    parsed,     \* what the calls of parse_vtt_segments returned, in order
    built,      \* what the calls of build_vtt_from_segments returned, in order
    seconds,    \* the time handed to format_vtt_time, in ms
    formatted,  \* what format_vtt_time returned (a one-element sequence)
    reparsed    \* what parse_vtt_time returned for it (a one-element sequence)

dvars == <<written, document, parsed, built, seconds, formatted, reparsed>>

CodecUnused ==
    /\ written = <<>>
    /\ document = <<>>
    /\ parsed = <<>>
    /\ built = <<>>
    /\ seconds = 0
    /\ formatted = <<>>
    /\ reparsed = <<>>

\* Cues a document can carry: times at the start of the scale, past a
\* minute, past an hour and at the top of the two-digit hour range; text of
\* one line, of two lines, and of two words.
DocCues ==
    {[start |-> 0, end |-> 1500, text |-> <<"a">>],
     [start |-> 61001, end |-> 3723456, text |-> <<"b", "\n", "x">>],
     [start |-> 3600000, end |-> 359999999, text |-> <<"c", " ", "d">>]}

CueLists == UNION {[1..n -> DocCues] : n \in 0..MaxDocCues}

\* A timestamp as a document may carry it: HH:MM:SS.mmm, or MM:SS.mmm when
\* the hour is zero and the short form is asked for.
WriteTime(ms, short) ==
    IF short /\ ms < 3600000 THEN Drop(format_timestamp(ms), 4) ELSE format_timestamp(ms)

\* The ways of laying out a well-formed document: with or without the
\* header line, short timestamps, no blanks around the arrow, text lines
\* indented and followed by blanks, a second empty line between cues.
Layouts == [header : BOOLEAN, short : BOOLEAN, tight : BOOLEAN, indent : BOOLEAN,
            gap : BOOLEAN]

WriteLine(line, lay) == IF lay.indent THEN <<" ", " ">> \o line \o <<" ">> ELSE line

WriteCue(seg, lay) ==
    LET lines == Split(seg.text, NL)
    IN  WriteTime(seg.start, lay.short)
        \o (IF lay.tight THEN ARROW ELSE <<" ">> \o ARROW \o <<" ">>)
        \o WriteTime(seg.end, lay.short) \o NL
        \o Flatten([i \in 1..Len(lines) |-> WriteLine(lines[i], lay) \o NL])
        \o (IF lay.gap THEN NL \o NL ELSE NL)

WriteDoc(segs, lay) ==
    (IF lay.header THEN HEADER \o NL \o NL ELSE <<>>)
    \o Flatten([i \in 1..Len(segs) |-> WriteCue(segs[i], lay)])

\* What the next parse_vtt_segments call is handed.
CodecInput == IF Len(built) = 0 THEN document ELSE built[Len(built)]

\* parse_vtt_segments(...)
decode ==
    /\ Len(parsed) = Len(built)
    /\ Len(parsed) < MaxPasses
    /\ parsed' = Append(parsed, parse_vtt_segments(CodecInput))
    /\ UNCHANGED <<written, document, built, seconds, formatted, reparsed>>

\* build_vtt_from_segments(...) of what the last parse returned
encode ==
    /\ Len(built) < Len(parsed)
    /\ parsed[Len(parsed)].ok
    /\ built' = Append(built, build_vtt_from_segments(parsed[Len(parsed)].segs))
    /\ UNCHANGED <<written, document, parsed, seconds, formatted, reparsed>>

\* Largest number of lines in a document of arbitrary lines.
MaxLines == 3

\* Lines a document can be made of: a well-formed timing line in the long
\* and in the short form, a timing line after a prefix, a timing line
\* followed by cue settings with and without a colon, a line of text, an
\* empty line, the header, and an arrow without times.
TimingLine == format_timestamp(1000) \o <<" ">> \o ARROW \o <<" ">> \o format_timestamp(5000)

AnyLines ==
    {TimingLine,
     Drop(format_timestamp(5000), 4) \o ARROW \o Drop(format_timestamp(6000), 4),
     <<"x", " ">> \o TimingLine,
     TimingLine \o <<" ", "a", ":", "s">>,
     TimingLine \o <<" ", "l", " ", "0">>,
     <<"h", "i">>,
     <<>>,
     HEADER,
     <<"a", " ">> \o ARROW \o <<" ", "b">>}

AnyDocs == UNION {{Join(ls, NL) : ls \in [1..n -> AnyLines]} : n \in 0..MaxLines}

\* Times of day handed to format_vtt_time: the ends of every field's range.
TimeHours == {0, 1, 99, 100}

TimeMinutes == {0, 59}

TimeSeconds == {0, 1, 59}

TimeMillis == {0, 1, 999}

TimeValues ==
    {h * 3600000 + m * 60000 + sec * 1000 + f :
        h \in TimeHours, m \in TimeMinutes, sec \in TimeSeconds, f \in TimeMillis}

\* format_vtt_time(seconds)
format_time ==
    /\ formatted = <<>>
    /\ formatted' = <<format_vtt_time(seconds)>>
    /\ UNCHANGED <<written, document, parsed, built, seconds, reparsed>>

\* parse_vtt_time(format_vtt_time(seconds))
parse_time ==
    /\ formatted # <<>>
    /\ reparsed = <<>>
    /\ reparsed' = <<parse_vtt_time(formatted[1])>>
    /\ UNCHANGED <<written, document, parsed, built, seconds, formatted>>

(***************************************************************************)
(* Specifications.                                                         *)
(***************************************************************************)

vars == <<tvars, cvars, svars, kvars, dvars, avars>>

\* One translate() call of either provider, for every input document,
\* target language and outcome of the remote calls.
InitTranslate ==
    /\ provider_name \in {"groq", "openai"}
    /\ vtt_content \in InputDocs
    /\ target_language \in Languages
    /\ progress_callback \in BOOLEAN
    /\ t_pc = "called"
    /\ input_segments = <<>>
    /\ segments = <<>>
    /\ task = <<>>
    /\ response = <<>>
    /\ semaphore = 0
    /\ remote_calls = 0
    /\ completed = <<>>
    /\ progress_calls = <<>>
    /\ translated_all = <<>>
    /\ t_result = <<>>
    /\ CacheEmpty
    /\ StreamIdle
    /\ cleaner = CleanerIdle /\ DownloadUnused /\ CodecUnused

NextTranslate ==
    \/ translate /\ UNCHANGED <<cvars, svars, kvars, dvars, avars>>
    \/ \E b \in 1..NumTasks : batch_acquire(b) /\ UNCHANGED <<cvars, svars, kvars, dvars, avars>>
    \/ \E b \in 1..NumTasks : batch_complete(b) /\ UNCHANGED <<cvars, svars, kvars, dvars, avars>>
    \/ gather_return /\ UNCHANGED <<cvars, svars, kvars, dvars, avars>>
    \/ openai_translate /\ UNCHANGED <<cvars, svars, kvars, dvars, avars>>
    \/ \E b \in 1..NumTasks : openai_batch(b) /\ UNCHANGED <<cvars, svars, kvars, dvars, avars>>
    \/ openai_return /\ UNCHANGED <<cvars, svars, kvars, dvars, avars>>

SpecTranslate == InitTranslate /\ [][NextTranslate]_vars

\* SpecTranslate where the event loop runs what is ready and every remote
\* call resolves: a waiting batch whose turn has come takes a free permit
\* (weak fairness of the acquisition), no call stays in flight for ever,
\* and gather does not stay suspended for ever once every task is done.
SpecTranslateLive ==
    /\ SpecTranslate
    /\ WF_vars((\E b \in 1..NumTasks : batch_acquire(b)) /\ UNCHANGED <<cvars, svars, kvars, dvars, avars>>)
    /\ []<>(\A b \in 1..NumTasks : task[b] # "inflight")
    /\ []<>(t_pc # "gather" \/ \E b \in 1..NumTasks : task[b] # "done")

\* The cache operations in any order, with the clock advancing in between.
InitCache == TranslateUnused /\ CacheEmpty /\ StreamIdle /\ cleaner = CleanerIdle /\ DownloadUnused /\ CodecUnused

NextCache ==
    \/ \E v \in VideoIds, l \in Languages : CacheGet(v, l) /\ UNCHANGED <<tvars, svars, kvars, dvars, avars>>
    \/ \E v \in VideoIds, l \in Languages :
         CacheSet(v, PayloadOf(v), l) /\ UNCHANGED <<tvars, svars, kvars, dvars, avars>>
    \/ CacheCleanup /\ UNCHANGED <<tvars, svars, kvars, dvars, avars>>
    \/ clear_cache /\ UNCHANGED <<tvars, svars, kvars, dvars, avars>>
    \/ Tick /\ UNCHANGED <<tvars, svars, kvars, dvars, avars>>

SpecCache == InitCache /\ [][NextCache]_vars

\* What earlier requests for video "a" can have left in the store: nothing,
\* its transcription, or its transcription and a translation.
EarlierCaches ==
    LET doc == create_vtt_from_segments(SourceCues(3))
        c1  == set_cached_subtitle(<<>>, 0, <<"a">>, doc, ORIGINAL)
        c2  == set_cached_subtitle(c1, 0, <<"a">>,
                                   LiteLLMTranslate(doc, parse_vtt_segments(doc), PT,
                                                    <<"ok", "ok", "ok">>).vtt, PT)
    IN  {<<>>, c1, c2}

\* When the request arrives, the earlier entries having been stored at time
\* 0: at once, exactly one expiry period later, or one second after that.
ArrivalTimes == {0, CACHE_EXPIRY_HOURS * 3600, CACHE_EXPIRY_HOURS * 3600 + 1}

\* One request to a streaming endpoint, against a store that earlier
\* requests have filled.  The request is short against the resolution of the
\* clock: the time does not change while it is served.
InitStream ==
    /\ TranslateUnused
    /\ StreamIdle
    /\ subtitle_cache \in EarlierCaches
    /\ now \in ArrivalTimes
    /\ ticks = 0
    /\ cache_ret = NoCacheOp
    /\ cleaner = CleanerIdle /\ DownloadUnused /\ CodecUnused

\* SpecStream serves one request.
OneRequest == {"r1"}

NextStream ==
    \/ \E r \in OneRequest, url \in RequestUrls, k \in ApiKeys, l \in Languages,
          p \in Providers, c \in BOOLEAN :
         post_transcribe(r, url, k, l, p, c) /\ UNCHANGED <<tvars, kvars, dvars, avars>>
    \/ \E r \in OneRequest, o \in DownloadOutcomes :
         transcribe_download(r, o) /\ UNCHANGED <<tvars, kvars, dvars, avars>>
    \/ \E r \in OneRequest, o \in CompressOutcomes :
         transcribe_compress(r, o) /\ UNCHANGED <<tvars, kvars, dvars, avars>>
    \/ \E r \in OneRequest :
         transcribe_transcribe(r, TranscribedDocs) /\ UNCHANGED <<tvars, kvars, dvars, avars>>
    \/ \E r \in OneRequest :
         transcribe_translate(r, BatchOutcomes) /\ UNCHANGED <<tvars, kvars, dvars, avars>>
    \/ \E r \in OneRequest, url \in RequestUrls, k \in ApiKeys, p \in Providers :
         post_summarize(r, url, k, p) /\ UNCHANGED <<tvars, kvars, dvars, avars>>
    \/ \E r \in OneRequest, o \in DownloadOutcomes :
         summarize_download(r, o) /\ UNCHANGED <<tvars, kvars, dvars, avars>>
    \/ \E r \in OneRequest, o \in CompressOutcomes :
         summarize_compress(r, o) /\ UNCHANGED <<tvars, kvars, dvars, avars>>
    \/ \E r \in OneRequest :
         summarize_transcribe(r, TranscribedDocs) /\ UNCHANGED <<tvars, kvars, dvars, avars>>
    \/ \E r \in OneRequest : \E o \in SummarizeOutcomes(run[r].provider) :
         summarize_summarize(r, o) /\ UNCHANGED <<tvars, kvars, dvars, avars>>
    \/ \E r \in OneRequest : consume(r) /\ UNCHANGED <<tvars, kvars, dvars, avars>>
    \/ \E r \in OneRequest : background_cleanup(r) /\ UNCHANGED <<tvars, kvars, dvars, avars>>

SpecStream == InitStream /\ [][NextStream]_vars

\* Two requests served at the same time by the one event loop, against an
\* empty store: "r1" is a /transcribe request and "r2" a /summarize request,
\* both for video "a" through the provider "groq".  Their producers and
\* consumers interleave at every await.  Of the outcomes of the remote calls
\* the ones that differ in what the producer enqueues are kept.
ConcurrentDownloads ==
    {o \in DownloadOutcomes : o.raised \/ (o.large /\ o.ext = "audio.mp3")}

ConcurrentCompressions == {"ok", "raise"}

ConcurrentDocs == {create_vtt_from_segments(SourceCues(3))}

ConcurrentSummaries == {o \in SummarizeOutcomes("groq") : o.summary # <<"Error: e">>}

InitConcurrent ==
    /\ TranslateUnused
    /\ StreamIdle
    /\ CacheEmpty
    /\ cleaner = CleanerIdle /\ DownloadUnused /\ CodecUnused

NextConcurrent ==
    \/ \E c \in BOOLEAN :
         post_transcribe("r1", UrlWatch, ValidKey, PT, "groq", c) /\ UNCHANGED <<tvars, kvars, dvars, avars>>
    \/ \E o \in ConcurrentDownloads :
         transcribe_download("r1", o) /\ UNCHANGED <<tvars, kvars, dvars, avars>>
    \/ \E o \in ConcurrentCompressions :
         transcribe_compress("r1", o) /\ UNCHANGED <<tvars, kvars, dvars, avars>>
    \/ transcribe_transcribe("r1", ConcurrentDocs) /\ UNCHANGED <<tvars, kvars, dvars, avars>>
    \/ transcribe_translate("r1", BatchOutcomes) /\ UNCHANGED <<tvars, kvars, dvars, avars>>
    \/ post_summarize("r2", UrlWatch, ValidKey, "groq") /\ UNCHANGED <<tvars, kvars, dvars, avars>>
    \/ \E o \in ConcurrentDownloads :
         summarize_download("r2", o) /\ UNCHANGED <<tvars, kvars, dvars, avars>>
    \/ \E o \in ConcurrentCompressions :
         summarize_compress("r2", o) /\ UNCHANGED <<tvars, kvars, dvars, avars>>
    \/ summarize_transcribe("r2", ConcurrentDocs) /\ UNCHANGED <<tvars, kvars, dvars, avars>>
    \/ \E o \in ConcurrentSummaries :
         summarize_summarize("r2", o) /\ UNCHANGED <<tvars, kvars, dvars, avars>>
    \/ \E r \in Reqs : consume(r) /\ UNCHANGED <<tvars, kvars, dvars, avars>>
    \/ \E r \in Reqs : background_cleanup(r) /\ UNCHANGED <<tvars, kvars, dvars, avars>>

SpecConcurrent == InitConcurrent /\ [][NextConcurrent]_vars

\* Two /transcribe requests for video "a", the second one arriving after
\* the response to the first is complete (stream closed, background tasks
\* run); in between time may pass and the store may be cleared.  Downloads
\* are small (no compression).
SequelDownloads == {o \in DownloadOutcomes : o.raised \/ (~o.large /\ o.ext = "audio.mp3")}

Between == closed["r1"] /\ bg_tasks["r1"] = 0 /\ run["r2"].pc = "idle"

\* Time passes between the two requests: one second, one expiry period, or
\* one second more than that.
Later ==
    /\ ticks = 0
    /\ \E t \in ArrivalTimes \ {0} : now' = now + t
    /\ ticks' = 1
    /\ UNCHANGED <<subtitle_cache, cache_ret>>

NextSequel ==
    \/ \E p \in list_providers :
         post_transcribe("r1", UrlWatch, ValidKey, PT, p, TRUE) /\ UNCHANGED <<tvars, kvars, dvars, avars>>
    \/ \E l \in Languages, c \in BOOLEAN :
         /\ Between
         /\ post_transcribe("r2", UrlWatch, ValidKey, l, "groq", c)
         /\ UNCHANGED <<tvars, kvars, dvars, avars>>
    \/ \E r \in Reqs, o \in SequelDownloads :
         transcribe_download(r, o) /\ UNCHANGED <<tvars, kvars, dvars, avars>>
    \/ \E r \in Reqs :
         transcribe_transcribe(r, ConcurrentDocs) /\ UNCHANGED <<tvars, kvars, dvars, avars>>
    \/ \E r \in Reqs :
         transcribe_translate(r, BatchOutcomes) /\ UNCHANGED <<tvars, kvars, dvars, avars>>
    \/ \E r \in Reqs : consume(r) /\ UNCHANGED <<tvars, kvars, dvars, avars>>
    \/ \E r \in Reqs : background_cleanup(r) /\ UNCHANGED <<tvars, kvars, dvars, avars>>
    \/ Between /\ Later /\ UNCHANGED <<tvars, svars, kvars, dvars, avars>>
    \/ Between /\ clear_cache /\ UNCHANGED <<tvars, svars, kvars, dvars, avars>>

SpecSequel == InitConcurrent /\ [][NextSequel]_vars

\* The places where a producer waits for a remote call: run_in_executor
\* with download_audio or compress_audio, provider.transcribe,
\* provider.translate and provider.summarize.
Awaiting == {"download", "compress", "transcribe", "translate", "summarize"}

\* SpecConcurrent where the event loop runs a consumer whose queue holds an
\* item, and where every remote call resolves: no producer stays at an
\* await for ever (its resumption is enabled exactly while it is there).
SpecConcurrentLive ==
    /\ SpecConcurrent
    /\ \A r \in Reqs : WF_vars(consume(r) /\ UNCHANGED <<tvars, kvars, dvars, avars>>)
    /\ \A r \in Reqs : []<>(run[r].pc \notin Awaiting)

\* The cache operations of concurrent requests on the event loop thread,
\* together with a worker thread that runs scheduled cleanups.
\* What the payload is plays no part in the interleavings: one will do.
ThreadPayload == create_vtt_from_segments(SourceCues(1))

InitThreads == TranslateUnused /\ CacheEmpty /\ StreamIdle /\ cleaner = CleanerIdle /\ DownloadUnused /\ CodecUnused

NextThreads ==
    \/ \E v \in VideoIds, l \in Languages : CacheGet(v, l) /\ UNCHANGED <<tvars, svars, kvars, dvars, avars>>
    \/ \E v \in VideoIds, l \in Languages :
         CacheSet(v, ThreadPayload, l) /\ UNCHANGED <<tvars, svars, kvars, dvars, avars>>
    \/ clear_cache /\ UNCHANGED <<tvars, svars, kvars, dvars, avars>>
    \/ Tick /\ UNCHANGED <<tvars, svars, kvars, dvars, avars>>
    \/ cleanup_scan /\ UNCHANGED <<tvars, svars, dvars, avars>>
    \/ cleanup_delete /\ UNCHANGED <<tvars, svars, dvars, avars>>

SpecThreads == InitThreads /\ [][NextThreads]_vars

\* A well-formed document goes through parse and build MaxPasses times.
InitCodec ==
    /\ TranslateUnused
    /\ CacheEmpty
    /\ StreamIdle
    /\ cleaner = CleanerIdle /\ DownloadUnused
    /\ written \in CueLists
    /\ \E lay \in Layouts : document = WriteDoc(written, lay)
    /\ parsed = <<>>
    /\ built = <<>>
    /\ seconds = 0
    /\ formatted = <<>>
    /\ reparsed = <<>>

NextCodec ==
    \/ decode /\ UNCHANGED <<tvars, cvars, svars, kvars, avars>>
    \/ encode /\ UNCHANGED <<tvars, cvars, svars, kvars, avars>>

SpecCodec == InitCodec /\ [][NextCodec]_vars

\* Any document, well-formed or not, goes through parse and, when parse
\* returns, through build.
InitDecode ==
    /\ TranslateUnused
    /\ CacheEmpty
    /\ StreamIdle
    /\ cleaner = CleanerIdle /\ DownloadUnused
    /\ written = <<>>
    /\ document \in AnyDocs
    /\ parsed = <<>>
    /\ built = <<>>
    /\ seconds = 0
    /\ formatted = <<>>
    /\ reparsed = <<>>

SpecDecode == InitDecode /\ [][NextCodec]_vars

\* A time is formatted and the result parsed.
InitTime ==
    /\ TranslateUnused
    /\ CacheEmpty
    /\ StreamIdle
    /\ cleaner = CleanerIdle /\ DownloadUnused
    /\ written = <<>>
    /\ document = <<>>
    /\ parsed = <<>>
    /\ built = <<>>
    /\ seconds \in TimeValues
    /\ formatted = <<>>
    /\ reparsed = <<>>

NextTime ==
    \/ format_time /\ UNCHANGED <<tvars, cvars, svars, kvars, avars>>
    \/ parse_time /\ UNCHANGED <<tvars, cvars, svars, kvars, avars>>

SpecTime == InitTime /\ [][NextTime]_vars

\* Video ids and language tags a request can carry: get_video_id takes any
\* run of characters other than "&" and white space, and target_language
\* is a free string, so either may hold an underscore.
KeyIds == {<<"a">>, <<"a", "_", "b">>}

KeyLanguages == {<<"c">>, <<"b", "_", "c">>}

\* The document a request for video v in language l stores: as many cues
\* as tell the four pairs apart.
PairPayload(v, l) ==
    create_vtt_from_segments(
        SourceCues((IF v = <<"a">> THEN 1 ELSE 3) + (IF l = <<"c">> THEN 0 ELSE 1)))

\* Stores and lookups for those ids and tags, with the clock advancing.
NextCacheKeys ==
    \/ \E v \in KeyIds, l \in KeyLanguages :
         CacheGet(v, l) /\ UNCHANGED <<tvars, svars, kvars, dvars, avars>>
    \/ \E v \in KeyIds, l \in KeyLanguages :
         CacheSet(v, PairPayload(v, l), l) /\ UNCHANGED <<tvars, svars, kvars, dvars, avars>>
    \/ Tick /\ UNCHANGED <<tvars, svars, kvars, dvars, avars>>

SpecCacheKeys == InitCache /\ [][NextCacheKeys]_vars

\* One call of download_audio, for every outcome of each of its passes.
InitDownload ==
    /\ TranslateUnused
    /\ CacheEmpty
    /\ StreamIdle
    /\ cleaner = CleanerIdle
    /\ CodecUnused
    /\ output_path \in {TempPath(r, "audio") : r \in Reqs}
    /\ attempt = 0
    /\ retry_delay = 2
    /\ last_error = NoError
    /\ dl_pc = "try"
    /\ dl_log = <<>>
    /\ dl_result = <<>>

NextDownload ==
    \/ \E o \in AttemptOutcomes : download_attempt(o) /\ UNCHANGED <<tvars, cvars, svars, kvars, dvars>>
    \/ retry_sleep /\ UNCHANGED <<tvars, cvars, svars, kvars, dvars>>

SpecDownload == InitDownload /\ [][NextDownload]_vars

(***************************************************************************)
(* Properties of the translation orchestrators (SpecTranslate).            *)
(***************************************************************************)

\* Batch and position of cue i, by index arithmetic.
BatchIndex(i, size) == ((i - 1) \div size) + 1

PosInBatch(i, size) == ((i - 1) % size) + 1

\* The translation attempt of batch b failed: the call raised or its
\* content could not be used as a JSON object.
Failed(b) == response[b].kind \in {"raise", "badjson", "nonobject"}

\* The text the call of cue i's batch produced for cue i: the string
\* returned at its position, or its source text when the batch failed or
\* the answer was too short.
ProducedText(i) ==
    LET b == BatchIndex(i, BATCH_SIZE)
        j == PosInBatch(i, BATCH_SIZE)
    IN  IF Failed(b) \/ j > Len(response[b].translations)
        THEN input_segments[i].text
        ELSE response[b].translations[j]

LiteLLMReturned == provider_name = "groq" /\ t_pc = "returned" /\ Len(input_segments) > 0

\* C1: whatever subset of the batches fails (remote call raises, content not
\* JSON), _translate_segments does not raise; in the cue list it returns and
\* in the document it encodes, every cue of a failed batch has its original
\* text and every cue of another batch has the (trimmed) string returned for
\* its position.
C1_PartialFailureIsolation ==
    /\ provider_name = "groq" => t_pc # "raised"
    /\ LiteLLMReturned =>
         LET decoded == parse_vtt_segments(t_result).segs
         IN  /\ Len(translated_all) = Len(input_segments)
             /\ Len(decoded) = Len(input_segments)
             /\ \A i \in 1..Len(input_segments) :
                  LET b == BatchIndex(i, BATCH_SIZE)
                      j == PosInBatch(i, BATCH_SIZE)
                  IN  /\ Failed(b) =>
                           /\ translated_all[i].text = input_segments[i].text
                           /\ decoded[i].text = input_segments[i].text
                      /\ (~Failed(b) /\ j <= Len(response[b].translations)) =>
                           /\ translated_all[i].text = response[b].translations[j]
                           /\ decoded[i].text = Strip(response[b].translations[j])

\* C1 witness: three batches, the middle one failed, the outer two answered.
C1_Witness ==
    /\ LiteLLMReturned
    /\ NumTasks = 3
    /\ Failed(2)
    /\ response[1].kind = "ok" /\ Len(response[1].translations) = BATCH_SIZE
    /\ response[3].kind = "ok" /\ Len(response[3].translations) >= 1

\* C2: for every completion order of the batch calls, the output has exactly
\* N cues and output cue i has the start and end of input cue i and the text
\* produced for input cue i.
C2_OrderPreserved ==
    LiteLLMReturned =>
        /\ Len(translated_all) = Len(input_segments)
        /\ \A i \in 1..Len(input_segments) :
             /\ translated_all[i].start = input_segments[i].start
             /\ translated_all[i].end = input_segments[i].end
             /\ translated_all[i].text = ProducedText(i)
        /\ t_result = build_vtt_from_segments(
                          [i \in 1..Len(input_segments) |->
                              [input_segments[i] EXCEPT !.text = ProducedText(i)]])

\* C2 witness: a later batch completed before an earlier one.
C2_Witness ==
    /\ LiteLLMReturned
    /\ \E p, q \in 1..Len(completed) : p < q /\ completed[p] > completed[q]
    /\ \A b \in 1..NumTasks : response[b].kind = "ok"

InFlight == {b \in 1..NumTasks : task[b] = "inflight"}

\* C5: at most get_concurrency_limit() translation calls are in flight, in
\* every reachable state and for any number of batches.
C5_ConcurrencyBound ==
    provider_name = "groq" => Cardinality(InFlight) <= get_concurrency_limit

\* C5 witness: the gate is full while another batch waits.
C5_Witness ==
    /\ provider_name = "groq"
    /\ t_pc = "gather"
    /\ Cardinality(InFlight) = get_concurrency_limit
    /\ \E b \in 1..NumTasks : task[b] = "pending"

\* C6: a batch of n cues whose call returned m strings: cues 1..min(m, n)
\* take the returned strings, cues m+1..n keep their original text, strings
\* beyond n are dropped, the batch still has n cues and nothing is raised.
C6_CountMismatch ==
    (provider_name = "groq" /\ t_pc \in {"gather", "returned", "raised"}) =>
        /\ t_pc # "raised"
        /\ Len(segments) = Len(input_segments)
        /\ \A b \in 1..NumTasks :
             (task[b] = "done" /\ response[b].kind = "ok") =>
                 LET lo == BatchLo(b, BATCH_SIZE)
                     n  == BatchHi(b, Len(input_segments), BATCH_SIZE) - lo + 1
                     m  == Len(response[b].translations)
                 IN  \A j \in 1..n :
                        /\ j <= m => segments[lo + j - 1].text = response[b].translations[j]
                        /\ j > m  => segments[lo + j - 1].text = input_segments[lo + j - 1].text
                        /\ segments[lo + j - 1].start = input_segments[lo + j - 1].start
                        /\ segments[lo + j - 1].end = input_segments[lo + j - 1].end

\* C6 witness: one batch got fewer strings than cues (but some), another got
\* more strings than cues.
C6_Witness ==
    /\ provider_name = "groq"
    /\ \E b \in 1..NumTasks :
         /\ task[b] = "done" /\ response[b].kind = "ok"
         /\ Len(response[b].translations) >= 1
         /\ Len(response[b].translations)
              < BatchHi(b, Len(input_segments), BATCH_SIZE) - BatchLo(b, BATCH_SIZE) + 1
    /\ \E b \in 1..NumTasks :
         /\ task[b] = "done" /\ response[b].kind = "ok"
         /\ Len(response[b].translations)
              > BatchHi(b, Len(input_segments), BATCH_SIZE) - BatchLo(b, BATCH_SIZE) + 1

\* Number of cues each input document decodes to.
DecodedCount == [d \in InputDocs |-> Len(parse_vtt_segments(d).segs)]

\* The call is one the identity short-circuit covers.
ShortCircuitCase == target_language = ORIGINAL \/ DecodedCount[vtt_content] = 0

\* C7: translate with target "original", or with a document that decodes to
\* zero cues, returns the input document unchanged, issues no remote call
\* and never invokes the progress callback.
C7_IdentityShortCircuit ==
    (provider_name = "groq" /\ ShortCircuitCase) =>
        /\ t_pc \in {"called", "returned"}
        /\ t_pc = "returned" => t_result = vtt_content
        /\ remote_calls = 0
        /\ progress_calls = <<>>

\* C7 witness: a document without cues that is not in canonical form, a real
\* target language and a callback, after the call returned.
C7_Witness ==
    /\ provider_name = "groq"
    /\ t_pc = "returned"
    /\ vtt_content = StrayDoc
    /\ target_language = PT
    /\ progress_callback

\* C9 (as claimed): when the remote call of one batch raises,
\* OpenAIProvider.translate does not raise; the cues of the other batches are
\* translated and those of the failed batch keep their original text.
C9_OpenAIIsolation ==
    (provider_name = "openai" /\ \E b \in 1..NumTasks : task[b] = "failed") =>
        /\ t_pc # "raised"
        /\ t_pc = "returned" =>
             \A i \in 1..Len(input_segments) :
                task[BatchIndex(i, OPENAI_BATCH_SIZE)] = "failed" =>
                    translated_all[i].text = input_segments[i].text

\* A call of _translate_segments: the cue list was not empty and the batch
\* tasks exist.
LiteLLMBatched ==
    provider_name = "groq" /\ t_pc \in {"gather", "returned"} /\ Len(input_segments) > 0

\* The cues handed to batch b.
Batches == [b \in 1..NumTasks |-> BatchOf(input_segments, b, BATCH_SIZE)]

\* C24: for N >= 1 cues _translate_segments forms ceil(N / BATCH_SIZE)
\* batches, each of at most BATCH_SIZE cues and only the last one possibly
\* shorter, which laid end to end are the cue list (contiguous, disjoint,
\* every index once, in order); every batch gets exactly one remote
\* translation call.
C24_BatchesPartitionCues ==
    LiteLLMBatched =>
        LET N == Len(input_segments)
        IN  /\ NumTasks * BATCH_SIZE >= N
            /\ (NumTasks - 1) * BATCH_SIZE < N
            /\ \A b \in 1..NumTasks :
                 /\ Len(Batches[b]) \in 1..BATCH_SIZE
                 /\ b < NumTasks => Len(Batches[b]) = BATCH_SIZE
            /\ Flatten(Batches) = input_segments
            /\ \A i \in 1..N :
                 Cardinality({b \in 1..NumTasks :
                                \E j \in 1..Len(Batches[b]) :
                                   Batches[b][j] = input_segments[i]}) = 1
            /\ remote_calls = Cardinality({b \in 1..NumTasks : task[b] # "pending"})
            /\ t_pc = "returned" => remote_calls = NumTasks

\* C24 witness: five cues went out as two full batches and a short one, with
\* three remote calls.
C24_Witness ==
    /\ LiteLLMBatched
    /\ t_pc = "returned"
    /\ Len(input_segments) = 5
    /\ NumTasks = 3
    /\ Len(Batches[3]) = 1
    /\ remote_calls = 3

\* C25: with a progress callback, batched translation invokes it exactly
\* once, with stage "translating" and 100 percent, and only when every batch
\* has completed; nothing is reported while a batch is pending or in flight.
C25_ProgressReportedOnceAtEnd ==
    (LiteLLMBatched /\ progress_callback) =>
        /\ t_pc = "gather" => progress_calls = <<>>
        /\ t_pc = "returned" =>
             /\ progress_calls = <<[stage |-> "translating", progress |-> 100]>>
             /\ \A b \in 1..NumTasks : task[b] = "done"

\* C25 witness: a call with a callback returned after three batches, one of
\* which had failed.
C25_Witness ==
    /\ LiteLLMBatched
    /\ progress_callback
    /\ t_pc = "returned"
    /\ NumTasks = 3
    /\ Failed(1)
    /\ Len(progress_calls) = 1

\* C38: a translation batch gives its permit back whether its remote call
\* succeeded or raised: when every call resolves, a call of
\* _translate_segments, also one with more batches than permits, leads to
\* every batch having had its call and to the return of the function with
\* all permits free.
C38_TranslationTerminates ==
    (provider_name = "groq" /\ t_pc = "gather") ~>
        (/\ t_pc = "returned"
         /\ remote_calls = NumTasks
         /\ \A b \in 1..NumTasks : task[b] = "done"
         /\ semaphore = get_concurrency_limit)

\* C38 witness: more batches than permits, the first two calls failed, the
\* function returned with every permit free.
C38_Witness ==
    /\ LiteLLMReturned
    /\ NumTasks > get_concurrency_limit
    /\ Failed(1)
    /\ Failed(2)
    /\ remote_calls = NumTasks
    /\ semaphore = get_concurrency_limit

(***************************************************************************)
(* The subtitle cache (SpecCache).                                         *)
(***************************************************************************)

\* C10: an entry stored at time T carries T as its age origin; a lookup of a
\* stored entry at time t returns that entry and leaves it in the store when
\* t - T <= 7 days, and returns None and leaves the store without the entry
\* when t - T > 7 days.
C10_CacheTTL ==
    [][/\ \A v \in VideoIds, l \in Languages, p \in Payloads :
            CacheSet(v, p, l) =>
                /\ HasKey(subtitle_cache', cache_key(v, l))
                /\ Lookup(subtitle_cache', cache_key(v, l)).cached_at = now
                /\ Lookup(subtitle_cache', cache_key(v, l)).vtt = p
       /\ \A v \in VideoIds, l \in Languages :
            (CacheGet(v, l) /\ HasKey(subtitle_cache, cache_key(v, l))) =>
                LET e == Lookup(subtitle_cache, cache_key(v, l))
                IN  IF now - e.cached_at <= 7 * 24 * 3600
                    THEN /\ cache_ret'.found
                         /\ cache_ret'.data = <<e>>
                         /\ HasKey(subtitle_cache', cache_key(v, l))
                    ELSE /\ ~cache_ret'.found
                         /\ ~HasKey(subtitle_cache', cache_key(v, l))]_vars

\* A lookup has met an entry one second past the expiry period, returned
\* None and removed it.
C10_Witness ==
    /\ cache_ret.op = "get"
    /\ cache_ret.age = 7 * 24 * 3600 + 1
    /\ ~cache_ret.found
    /\ ~HasKey(subtitle_cache, cache_ret.key)

\* The entries were stored one after the other and none was rewritten:
\* their cached_at does not decrease along the insertion order.
InsertedInOrder(cache) ==
    \A i \in 1..Len(cache), j \in 1..Len(cache) :
        i < j => cache[i].cached_at <= cache[j].cached_at

\* C11: set_cached_subtitle of a new key into a store that holds
\* CACHE_MAX_SIZE entries, none of them expired, each stored once, removes
\* exactly the first inserted entry, whose cached_at is the smallest, keeps
\* the others as they were and adds the new key, so that the store holds
\* CACHE_MAX_SIZE entries again.
C11_EvictsOldestOnly ==
    [][\A v \in VideoIds, l \in Languages, p \in Payloads :
          (/\ CacheSet(v, p, l)
           /\ Len(subtitle_cache) = CACHE_MAX_SIZE
           /\ ~HasKey(subtitle_cache, cache_key(v, l))
           /\ InsertedInOrder(subtitle_cache)
           /\ \A i \in 1..Len(subtitle_cache) :
                now - subtitle_cache[i].cached_at <= 7 * 24 * 3600) =>
              /\ Len(subtitle_cache') = CACHE_MAX_SIZE
              /\ \A i \in 1..Len(subtitle_cache) :
                   subtitle_cache[1].cached_at <= subtitle_cache[i].cached_at
              /\ SubSeq(subtitle_cache', 1, CACHE_MAX_SIZE - 1) = Tail(subtitle_cache)
              /\ subtitle_cache'[CACHE_MAX_SIZE].key = cache_key(v, l)
              /\ subtitle_cache'[CACHE_MAX_SIZE].vtt = p]_vars

\* A new key was stored into a full store of unexpired entries and one
\* entry was evicted for it.
C11_Witness ==
    /\ cache_ret.op = "set"
    /\ cache_ret.count = 1
    /\ Len(subtitle_cache) = CACHE_MAX_SIZE
    /\ subtitle_cache[CACHE_MAX_SIZE].key = cache_ret.key
    /\ subtitle_cache[CACHE_MAX_SIZE].cached_at = now
    /\ \A i \in 1..Len(subtitle_cache) : now - subtitle_cache[i].cached_at <= 1

\* Entry e of a store is still in another store, as it was.
Kept(e, cache) == \E j \in 1..Len(cache) : cache[j] = e

\* C26: set_cached_subtitle on a store at capacity that holds an expired
\* entry removes every expired entry and evicts no unexpired one; an
\* unexpired entry leaves the store only when the store is still at capacity
\* after the purge, and then it is the entry with the smallest cached_at, the
\* first one in iteration order among equals.
C26_PurgeBeforeEvict ==
    [][\A v \in VideoIds, l \in Languages, p \in Payloads :
          (CacheSet(v, p, l) /\ Len(subtitle_cache) >= CACHE_MAX_SIZE) =>
              LET old     == subtitle_cache
                  expired == {i \in 1..Len(old) : now - old[i].cached_at > 7 * 24 * 3600}
                  fresh   == (1..Len(old)) \ expired
                  other   == {i \in 1..Len(old) : old[i].key # cache_key(v, l)}
              IN  /\ \A i \in expired \cap other : ~HasKey(subtitle_cache', old[i].key)
                  /\ expired # {} =>
                       \A i \in fresh \cap other : Kept(old[i], subtitle_cache')
                  /\ \A i \in fresh :
                       ~HasKey(subtitle_cache', old[i].key) =>
                           /\ Cardinality(fresh) >= CACHE_MAX_SIZE
                           /\ \A j \in 1..Len(old) : old[i].cached_at <= old[j].cached_at
                           /\ \A j \in 1..(i - 1) : old[j].cached_at > old[i].cached_at]_vars

\* C26 witness: a set found the store full of expired entries and purged
\* them all, more than an eviction would have removed.
C26_Witness ==
    /\ cache_ret.op = "set"
    /\ cache_ret.count = CACHE_MAX_SIZE
    /\ Len(subtitle_cache) = 1
    /\ subtitle_cache[1].cached_at = now

\* The keys of a store, as a set.
KeySet(cache) == {cache[i].key : i \in 1..Len(cache)}

\* C29 (as claimed): set_cached_subtitle for a key the store already holds
\* removes no other entry, at capacity or not: the key set is the same
\* afterwards and every entry under another key is as it was.
C29_OverwriteKeepsOthers ==
    [][\A v \in VideoIds, l \in Languages, p \in Payloads :
          (CacheSet(v, p, l) /\ HasKey(subtitle_cache, cache_key(v, l))) =>
              /\ KeySet(subtitle_cache') = KeySet(subtitle_cache)
              /\ \A i \in 1..Len(subtitle_cache) :
                   subtitle_cache[i].key # cache_key(v, l) =>
                       Kept(subtitle_cache[i], subtitle_cache')]_vars

\* C30: get_cached_subtitle on an entry that has not expired returns it and
\* leaves the whole store as it was, the cached_at of the entry included.
C30_GetDoesNotRefresh ==
    [][\A v \in VideoIds, l \in Languages :
          (/\ CacheGet(v, l)
           /\ HasKey(subtitle_cache, cache_key(v, l))
           /\ now - Lookup(subtitle_cache, cache_key(v, l)).cached_at <= 7 * 24 * 3600) =>
              /\ subtitle_cache' = subtitle_cache
              /\ cache_ret'.found
              /\ cache_ret'.data = <<Lookup(subtitle_cache, cache_key(v, l))>>]_vars

\* C30 witness: a lookup returned an entry that had been stored earlier on
\* and still carries the time it was stored at.
C30_Witness ==
    /\ cache_ret.op = "get"
    /\ cache_ret.found
    /\ cache_ret.age > 0
    /\ HasKey(subtitle_cache, cache_ret.key)
    /\ Lookup(subtitle_cache, cache_ret.key).cached_at = now - cache_ret.age

\* C12: after any sequence of cache operations the store holds at most
\* CACHE_MAX_SIZE entries and no two entries have the same key.
C12_BoundedUniqueKeys ==
    /\ Len(subtitle_cache) <= CACHE_MAX_SIZE
    /\ \A i \in 1..Len(subtitle_cache), j \in 1..Len(subtitle_cache) :
         Keys(subtitle_cache)[i] = Keys(subtitle_cache)[j] => i = j

\* The store is at capacity and a lookup has just found one of its entries.
C12_Witness ==
    /\ Len(subtitle_cache) = CACHE_MAX_SIZE
    /\ cache_ret.op = "get"
    /\ cache_ret.found
    /\ HasKey(subtitle_cache, cache_ret.key)

\* C13: a cache operation is one critical section: while a cleanup is
\* between building its list and its last del, no other operation changes
\* the store.
C13_CacheOpsAreCriticalSections ==
    [][cleaner.pc = "delete" => (cleaner' # cleaner \/ subtitle_cache' = subtitle_cache)]_vars

\* C14: whatever the store holds, clear_cache leaves it empty and answers
\* with the number of entries it held just before.
C14_ClearReturnsPriorCount ==
    [][clear_cache =>
          /\ subtitle_cache' = <<>>
          /\ cache_ret'.op = "clear"
          /\ cache_ret'.count = Cardinality({Keys(subtitle_cache)[i] :
                                               i \in 1..Len(subtitle_cache)})]_vars

\* clear_cache has emptied a store that was at capacity.
C14_Witness ==
    /\ cache_ret.op = "clear"
    /\ cache_ret.count = CACHE_MAX_SIZE
    /\ subtitle_cache = <<>>

(***************************************************************************)
(* The streaming endpoints (SpecStream).                                   *)
(***************************************************************************)

Terminal(e) == e.action \in {"transcription_result", "summary_result", "error"}

\* Everything the producer of r has enqueued that is still visible: what the
\* consumer has yielded, then what waits in the queue.
Enqueued(r) == delivered[r] \o queue[r]

\* The items of a sequence that are not the sentinel.
Events(items) ==
    LET real(e) == e # Sentinel
    IN  SelectSeq(items, real)

\* C3: among the events delivered for a request there is never an event
\* after a terminal one (so at most one terminal event, and nothing follows
\* it), and once the stream is closed the last event delivered is terminal.
C3_OneTerminalEventLast ==
    \A r \in Reqs :
        LET d == delivered[r]
        IN  /\ \A i \in 1..Len(d) : Terminal(d[i]) => i = Len(d)
            /\ closed[r] => (Len(d) > 0 /\ Terminal(d[Len(d)]))

\* A /summarize stream has closed after compression raised: of the four
\* events delivered, the last is the error event.
C3_Witness ==
    \E r \in Reqs :
        /\ closed[r]
        /\ run[r].endpoint = "summarize"
        /\ run[r].raised = "compress"
        /\ Len(delivered[r]) = 4
        /\ delivered[r][4] = ErrorEvent

\* C4: when a stage of the /transcribe producer has raised, the producer has
\* run to its end, the last event it enqueued is an error, it enqueued no
\* result, the sentinel was enqueued, and the run stored nothing under
\* (video_id, target_language).
C4_FailureIsErrorEvent ==
    \A r \in Reqs :
        (run[r].endpoint = "transcribe" /\ run[r].raised # "") =>
            LET ev == Events(Enqueued(r))
            IN  /\ run[r].pc = "done"
                /\ Len(ev) > 0
                /\ ev[Len(ev)].action = "error"
                /\ \A i \in 1..Len(ev) : ev[i].action # "transcription_result"
                /\ (closed[r] \/ \E i \in 1..Len(queue[r]) : queue[r][i] = Sentinel)
                /\ cache_key(run[r].video_id.id, run[r].lang) \notin run[r].wrote

\* Translation raised after the transcription was stored, and the stream
\* has closed on the error event.
C4_Witness ==
    \E r \in Reqs :
        /\ run[r].endpoint = "transcribe"
        /\ run[r].raised = "translate"
        /\ run[r].video_id.found
        /\ run[r].wrote = {cache_key(run[r].video_id.id, ORIGINAL)}
        /\ closed[r]
        /\ delivered[r][Len(delivered[r])] = ErrorEvent

\* The batches of the run of r whose remote call raised.
FailedBatches(r) == {b \in DOMAIN run[r].outcomes : run[r].outcomes[b] = "raise"}

\* C8: a /transcribe run in which a translation batch failed enqueues no
\* error event and ends with a transcription_result whose payload has the
\* source text in the cues of the failed batches.
C8_DegradedTranslationIsSuccess ==
    \A r \in Reqs :
        (run[r].endpoint = "transcribe" /\ run[r].pc = "done" /\ FailedBatches(r) # {}) =>
            LET ev   == Events(Enqueued(r))
                src  == parse_vtt_segments(run[r].source).segs
                size == IF IsLiteLLM(run[r].provider) THEN BATCH_SIZE ELSE OPENAI_BATCH_SIZE
            IN  /\ Len(ev) > 0
                /\ \A i \in 1..Len(ev) : ev[i].action # "error"
                /\ ev[Len(ev)].action = "transcription_result"
                /\ LET out == parse_vtt_segments(ev[Len(ev)].data).segs
                   IN  /\ Len(out) = Len(src)
                       /\ \A j \in 1..Len(src) :
                            (j - 1) \div size + 1 \in FailedBatches(r) =>
                                out[j].text = src[j].text

\* The producer of r takes the step that ends it.
Ends(r) == run[r].pc # "done" /\ run'[r].pc = "done"

\* The last event the producer of r has enqueued, after the step.
LastEnqueued(r) == Events(delivered'[r] \o queue'[r])[Len(Events(delivered'[r] \o queue'[r]))]

\* C15: when a /transcribe run for a video with an id ends in a
\* transcription_result that did not come from the cache, the store then
\* holds an entry for (video_id, target_language) whose payload is the vtt
\* of the result and whose cached_at is the time of that step.
C15_ResultIsStoredFresh ==
    [][\A r \in Reqs :
          (/\ Ends(r)
           /\ run'[r].endpoint = "transcribe"
           /\ run'[r].video_id.found
           /\ LastEnqueued(r).action = "transcription_result"
           /\ ~LastEnqueued(r).cached) =>
              LET key == cache_key(run'[r].video_id.id, run'[r].lang)
              IN  /\ HasKey(subtitle_cache', key)
                  /\ Lookup(subtitle_cache', key).vtt = LastEnqueued(r).data
                  /\ Lookup(subtitle_cache', key).cached_at = now]_vars

\* A run has ended in a fresh result for a key that already had an entry,
\* stored at an earlier time, when the request arrived.
C15_Witness ==
    \E r \in Reqs :
        /\ run[r].pc = "done"
        /\ run[r].endpoint = "transcribe"
        /\ run[r].had
        /\ ~run[r].cached
        /\ run[r].raised = ""
        /\ now > 0
        /\ HasKey(subtitle_cache, cache_key(run[r].video_id.id, run[r].lang))
        /\ Lookup(subtitle_cache, cache_key(run[r].video_id.id, run[r].lang)).cached_at = now

\* C16: a /transcribe request with check_cache set, for a video id and a
\* target language whose entry is in the store and not older than 7 days,
\* runs to its end in its first step: it enqueues the initializing progress
\* event and then a transcription_result with the cached payload and
\* cached = true, never reaches download, transcription or translation,
\* creates no file, schedules no task and leaves the store as it was.
C16_CacheHitShortCircuit ==
    [][\A r \in Reqs :
          (/\ run[r].pc = "idle"
           /\ run'[r].pc # "idle"
           /\ run'[r].endpoint = "transcribe"
           /\ run'[r].check_cache
           /\ run'[r].video_id.found
           /\ HasKey(subtitle_cache, cache_key(run'[r].video_id.id, run'[r].lang))
           /\ now - Lookup(subtitle_cache,
                           cache_key(run'[r].video_id.id, run'[r].lang)).cached_at
                <= 7 * 24 * 3600) =>
              /\ run'[r].pc = "done"
              /\ Events(queue'[r]) =
                   <<Progress("initializing", 10),
                     TranscriptionResult(
                         Lookup(subtitle_cache,
                                cache_key(run'[r].video_id.id, run'[r].lang)).vtt,
                         TRUE)>>
              /\ run'[r].audio_path = NoPath
              /\ run'[r].source = <<>>
              /\ run'[r].outcomes = <<>>
              /\ subtitle_cache' = subtitle_cache
              /\ files' = files
              /\ bg_tasks' = bg_tasks]_vars

\* A request met an entry of exactly the expiry age and its stream closed
\* after the two events of a cache hit.
C16_Witness ==
    \E r \in Reqs :
        /\ closed[r]
        /\ run[r].cached
        /\ run[r].endpoint = "transcribe"
        /\ now = 7 * 24 * 3600
        /\ Len(delivered[r]) = 2
        /\ delivered[r][2].action = "transcription_result"
        /\ delivered[r][2].cached
        /\ HasKey(subtitle_cache, cache_key(run[r].video_id.id, run[r].lang))

\* The progress values a producer has enqueued for one stage, in the order
\* of emission.
StageValues(items, stage) ==
    LET of_stage(e) == e.action = "progress" /\ e.stage = stage
        evs == SelectSeq(items, of_stage)
    IN  [i \in 1..Len(evs) |-> evs[i].progress]

Stages(items) == {items[i].stage : i \in {j \in 1..Len(items) : items[j].action = "progress"}}

\* C18: in every run of /transcribe and /summarize, the progress values
\* enqueued under one stage name never decrease in the order of emission,
\* and every progress value lies in 0..100.
C18_ProgressMonotonePerStage ==
    \A r \in Reqs :
        \A stage \in Stages(run[r].sent) :
            LET v == StageValues(run[r].sent, stage)
            IN  /\ \A i \in 1..Len(v) : v[i] \in 0..100
                /\ \A i \in 1..Len(v) - 1 : v[i] <= v[i + 1]

\* A run that compressed its download and translated through a provider
\* that reports progress: three values under "downloading" and three under
\* "translating".
C18_Witness ==
    \E r \in Reqs :
        /\ run[r].pc = "done"
        /\ StageValues(run[r].sent, "downloading") = <<10, 30, 100>>
        /\ StageValues(run[r].sent, "transcribing") = <<35, 70>>
        /\ StageValues(run[r].sent, "translating") = <<75, 95, 95>>

\* C22: a /transcribe request whose api_key has fewer than 10 characters,
\* whose video_url holds neither "youtube.com" nor "youtu.be", or whose
\* provider is not one of the registered ones is rejected before the
\* producer starts: nothing is enqueued, no file is created, no task is
\* scheduled and the store is unchanged.
C22_InvalidRequestRejected ==
    [][\A r \in Reqs, url \in RequestUrls, k \in ApiKeys, l \in Languages,
          p \in Providers, c \in BOOLEAN :
          (/\ post_transcribe(r, url, k, l, p, c)
           /\ \/ Len(k) < 10
              \/ url \notin {UrlWatch, UrlShort, UrlChannel}
              \/ p \notin {"openai", "groq"}) =>
              /\ run'[r].pc = "rejected"
              /\ run'[r].sent = <<>>
              /\ queue' = queue
              /\ delivered' = delivered
              /\ files' = files
              /\ bg_tasks' = bg_tasks
              /\ subtitle_cache' = subtitle_cache]_vars

\* A /transcribe request for an unregistered provider has been rejected,
\* with a store that holds entries.
C22_Witness ==
    \E r \in Reqs :
        /\ run[r].pc = "rejected"
        /\ run[r].endpoint = "transcribe"
        /\ run[r].provider = "unregistered"
        /\ run[r].video_url = UrlWatch
        /\ Len(subtitle_cache) > 0
        /\ queue[r] = <<>>

\* C23: when every remote call resolves and ready tasks are run, a request
\* whose producer has started leads to its stream being closed: the
\* producer reaches its sentinel and the consumer leaves its loop.
C23_StreamEventuallyCloses ==
    \A r \in Reqs : (run[r].pc \notin {"idle", "rejected"}) ~> closed[r]

\* A stream has closed after the producer went through download,
\* transcription and translation.
C23_Witness ==
    \E r \in Reqs :
        /\ closed[r]
        /\ run[r].pc = "done"
        /\ run[r].audio_path # NoPath
        /\ Len(run[r].outcomes) > 0

\* The temp files of request r that exist on disk.
FilesOf(r) == {f \in files : f[1] = r}

\* C31 (as claimed): once the /transcribe producer has enqueued its final
\* sentinel, on success or on error, no temp audio file of that run's
\* download or compression exists any more; while the run goes on, every
\* file of the run on disk is the one the path kept for cleanup names.
C31_NoTempFileLeft ==
    \A r \in Reqs :
        run[r].endpoint = "transcribe" =>
            /\ run[r].pc = "done" => FilesOf(r) = {}
            /\ run[r].pc \in {"compress", "transcribe", "translate"} =>
                 FilesOf(r) \subseteq {run[r].audio_path_ref}

\* The number of sentinels in a sequence of items.
Sentinels(items) == Len(items) - Len(Events(items))

\* C32 (as claimed): every path of the /transcribe and /summarize producers
\* enqueues exactly one closing sentinel, so that the queue of the request
\* is empty once its consumer has stopped.
C32_OneSentinelPerRun ==
    \A r \in Reqs :
        /\ run[r].pc = "done" => Sentinels(run[r].sent) = 1
        /\ closed[r] => queue[r] = <<>>

\* The progress values of a sequence of items, whatever their stage.
ProgressValues(items) ==
    LET is_progress(e) == e.action = "progress"
        evs == SelectSeq(items, is_progress)
    IN  [i \in 1..Len(evs) |-> evs[i].progress]

\* C33 (as claimed): across a /transcribe stream the progress value of each
\* progress event is at least that of every earlier progress event of the
\* run, whatever the stages and the path taken.
C33_OverallProgressMonotone ==
    \A r \in Reqs :
        run[r].endpoint = "transcribe" =>
            LET vals == ProgressValues(run[r].sent)
            IN  \A i \in 1..Len(vals), j \in 1..Len(vals) : i < j => vals[i] <= vals[j]

\* The stages whose progress events a producer has enqueued.
StagesSent(rs) == Stages(rs.sent)

\* The producer of a /transcribe request that was accepted starts in this
\* step.
TranscribeStarts(r) ==
    /\ run[r].pc = "idle"
    /\ run'[r].endpoint = "transcribe"
    /\ run'[r].pc \notin {"idle", "rejected"}

\* C36: a /transcribe run with check_cache false never reads the store: it
\* starts with the download whatever the store holds, leaves expired entries
\* where they are, and reports nothing as cached; it transcribes and, for a
\* target other than "original", translates; with a video id it still
\* stores the transcription and the final document.
C36_NoCheckStillWrites ==
    [][\A r \in Reqs :
          (run'[r].endpoint = "transcribe" /\ ~run'[r].check_cache) =>
              /\ TranscribeStarts(r) =>
                   /\ subtitle_cache' = subtitle_cache
                   /\ run'[r].pc = "download"
              /\ ~run'[r].cached
              /\ "cached" \notin StagesSent(run'[r])
              /\ (run[r].pc = "transcribe" /\ run'[r].source # <<>>
                  /\ run'[r].video_id.found) =>
                   /\ HasKey(subtitle_cache', cache_key(run'[r].video_id.id, ORIGINAL))
                   /\ run'[r].lang # ORIGINAL =>
                        Lookup(subtitle_cache',
                               cache_key(run'[r].video_id.id, ORIGINAL)).vtt = run'[r].source
              /\ (Ends(r) /\ run'[r].raised = "") =>
                   /\ {"downloading", "transcribing"} \subseteq StagesSent(run'[r])
                   /\ run'[r].lang # ORIGINAL => run[r].pc = "translate"
                   /\ run'[r].video_id.found =>
                        /\ HasKey(subtitle_cache',
                                  cache_key(run'[r].video_id.id, run'[r].lang))
                        /\ Lookup(subtitle_cache',
                                  cache_key(run'[r].video_id.id, run'[r].lang)).vtt
                             = run'[r].final_vtt]_vars

\* C36 witness: a run with check_cache false for a key the store held when
\* it started went through download, transcription and translation and
\* stored both documents.
C36_Witness ==
    \E r \in Reqs :
        /\ run[r].endpoint = "transcribe"
        /\ ~run[r].check_cache
        /\ run[r].had
        /\ run[r].lang = PT
        /\ run[r].pc = "done"
        /\ run[r].raised = ""
        /\ Len(run[r].outcomes) > 0
        /\ run[r].wrote = {cache_key(run[r].video_id.id, ORIGINAL),
                           cache_key(run[r].video_id.id, PT)}
        /\ Lookup(subtitle_cache, cache_key(run[r].video_id.id, PT)).vtt = run[r].final_vtt

\* C37: a /transcribe run for a URL that passed validation and in which
\* get_video_id finds no id neither reads nor writes the store: every step
\* of the run leaves the store as it is, nothing is reported as cached and
\* no cleanup task is scheduled.
C37_NoIdNoCache ==
    [][\A r \in Reqs :
          (/\ run'[r].endpoint = "transcribe"
           /\ run'[r].pc \notin {"idle", "rejected"}
           /\ ~run'[r].video_id.found
           /\ run'[r] # run[r]) =>
              /\ subtitle_cache' = subtitle_cache
              /\ run'[r].wrote = {}
              /\ ~run'[r].cached
              /\ "cached" \notin StagesSent(run'[r])
              /\ bg_tasks'[r] = 0]_vars

\* C37 witness: a run for a URL without an id ended with its result while
\* the store held entries.
C37_Witness ==
    \E r \in Reqs :
        /\ run[r].endpoint = "transcribe"
        /\ run[r].video_url = UrlChannel
        /\ ~run[r].video_id.found
        /\ run[r].check_cache
        /\ run[r].pc = "done"
        /\ run[r].raised = ""
        /\ run[r].lang = PT
        /\ Len(subtitle_cache) > 0

\* C39 (as claimed): in a /summarize run the failure of the summary model
\* call reaches the caller as an error event: no summary_result event
\* carries as its summary the text made from the exception.
C39_SummaryFailureIsError ==
    \A r \in Reqs :
        run[r].endpoint = "summarize" =>
            \A i \in 1..Len(run[r].sent) :
                run[r].sent[i].action = "summary_result" =>
                    run[r].sent[i].data # generate_summary("raise")

(***************************************************************************)
(* One request after another (SpecSequel).                                 *)
(***************************************************************************)

\* The second request starts in this step.
SecondArrives == run["r2"].pc = "idle" /\ run'["r2"].pc # "idle"

\* The entry the store holds for video "a" in language l can be served at
\* the present time.
Servable(l) ==
    /\ HasKey(subtitle_cache, cache_key(<<"a">>, l))
    /\ now - Lookup(subtitle_cache, cache_key(<<"a">>, l)).cached_at <= 7 * 24 * 3600

\* C34: a /transcribe run some or all of whose translation batches fell back
\* to the source text stores its payload under (video_id, target_language)
\* like any other; a later request for a key the store holds unexpired, with
\* check_cache true, ends at once with that payload as a cache hit.
C34_DegradedResultIsCached ==
    [][/\ (/\ Ends("r1")
           /\ run'["r1"].raised = ""
           /\ \E b \in DOMAIN run'["r1"].outcomes : run'["r1"].outcomes[b] = "raise") =>
              /\ HasKey(subtitle_cache', cache_key(<<"a">>, PT))
              /\ Lookup(subtitle_cache', cache_key(<<"a">>, PT)).vtt = run'["r1"].final_vtt
       /\ (SecondArrives /\ run'["r2"].check_cache /\ Servable(run'["r2"].lang)) =>
              /\ run'["r2"].pc = "done"
              /\ run'["r2"].cached
              /\ subtitle_cache' = subtitle_cache
              /\ Events(run'["r2"].sent) =
                   <<Progress("initializing", 10),
                     TranscriptionResult(
                         Lookup(subtitle_cache, cache_key(<<"a">>, run'["r2"].lang)).vtt,
                         TRUE)>>]_vars

\* C34 witness: the first run ended with a failed batch and no error, time
\* passed, and the second request got the payload of the first as a hit.
C34_Witness ==
    /\ FailedBatches("r1") # {}
    /\ run["r1"].raised = ""
    /\ run["r1"].final_vtt # LiteLLMTranslate(run["r1"].source,
                                              parse_vtt_segments(run["r1"].source), PT,
                                              <<"ok", "ok">>).vtt
    /\ now > 0
    /\ run["r2"].cached
    /\ closed["r2"]
    /\ delivered["r2"][Len(delivered["r2"])] = TranscriptionResult(run["r1"].final_vtt, TRUE)

\* C35: in a /transcribe run with a video id, when transcription returns
\* the store holds (video_id, "original") with the transcription, and it
\* still does when the run then ends in an error event; a following run for
\* the video with check_cache true, while that entry can be served,
\* neither downloads nor transcribes.
C35_TranscriptionIsStoredAtOnce ==
    [][/\ \A r \in Reqs :
            (run[r].pc = "transcribe" /\ run'[r].source # <<>>) =>
                /\ HasKey(subtitle_cache', cache_key(<<"a">>, ORIGINAL))
                /\ Lookup(subtitle_cache', cache_key(<<"a">>, ORIGINAL)).vtt = run'[r].source
       /\ (Ends("r1") /\ run'["r1"].raised = "translate") =>
              /\ ErrorEvent = run'["r1"].sent[Len(run'["r1"].sent) - 1]
              /\ HasKey(subtitle_cache', cache_key(<<"a">>, ORIGINAL))
              /\ Lookup(subtitle_cache', cache_key(<<"a">>, ORIGINAL)).vtt = run'["r1"].source
       /\ (SecondArrives /\ run'["r2"].check_cache /\ Servable(ORIGINAL)) =>
              /\ run'["r2"].pc \in {"translate", "done"}
              /\ run'["r2"].audio_path = NoPath
              /\ StagesSent(run'["r2"]) \cap {"downloading", "transcribing"} = {}
              /\ files' = files]_vars

\* C35 witness: the first run transcribed and then failed in translation;
\* the second run went on from the stored transcription, without a download.
C35_Witness ==
    /\ run["r1"].raised = "translate"
    /\ run["r2"].check_cache
    /\ run["r2"].lang = PT
    /\ run["r2"].pc = "done"
    /\ ~run["r2"].cached
    /\ run["r2"].source = run["r1"].source
    /\ run["r2"].audio_path = NoPath
    /\ "cached" \in StagesSent(run["r2"])

(***************************************************************************)
(* Concurrent requests (SpecConcurrent).                                   *)
(***************************************************************************)

\* The items of a sequence that precede its first sentinel.
BeforeSentinel(items) ==
    LET at == {i \in 1..Len(items) : items[i] = Sentinel}
    IN  IF at = {}
        THEN items
        ELSE SubSeq(items, 1, (CHOOSE i \in at : \A j \in at : i <= j) - 1)

IsPrefix(s, t) == Len(s) <= Len(t) /\ SubSeq(t, 1, Len(s)) = s

\* C17: whatever the interleaving of two requests, what has been delivered
\* for a request is at every moment a prefix of the items its own producer
\* enqueued before its first sentinel, and is all of them, in order, once
\* its stream has closed; no item of the other request is ever delivered.
C17_StreamsAreIsolated ==
    \A r \in Reqs :
        /\ IsPrefix(delivered[r], BeforeSentinel(run[r].sent))
        /\ closed[r] => delivered[r] = BeforeSentinel(run[r].sent)

\* Both streams have closed with their own results, the /summarize request
\* having started while the /transcribe request was being served (it found
\* the transcription that request had stored).
C17_Witness ==
    /\ closed["r1"]
    /\ closed["r2"]
    /\ run["r2"].cached
    /\ Len(delivered["r1"]) > 2
    /\ delivered["r1"][Len(delivered["r1"])].action = "transcription_result"
    /\ delivered["r2"][Len(delivered["r2"])].action = "summary_result"

(***************************************************************************)
(* The cue codec (SpecCodec, SpecTime).                                    *)
(***************************************************************************)

\* The same cues: as many, in the same order, with the same times and text.
SameCues(a, b) ==
    /\ Len(a) = Len(b)
    /\ \A i \in 1..Len(a) :
          /\ a[i].start = b[i].start
          /\ a[i].end = b[i].end
          /\ a[i].text = b[i].text

\* C19: for a well-formed document, parsing succeeds and yields the cues the
\* document was written from; what build makes of them parses to the same
\* cues again; and a second pass of parse and build returns the string the
\* first pass returned.
C19_RoundTripIsCanonical ==
    /\ \A i \in 1..Len(parsed) : parsed[i].ok /\ SameCues(parsed[i].segs, written)
    /\ Len(built) = 2 => built[2] = built[1]

\* A document of two cues that was not in canonical form has been through
\* both passes.
C19_Witness ==
    /\ Len(written) = 2
    /\ Len(built) = 2
    /\ document # built[1]
    /\ built[2] = built[1]
    /\ Len(parsed[2].segs) = 2

\* HH:MM:SS.mmm with two, two, two and three digits.
IsFixedWidth(str) ==
    /\ Len(str) = 12
    /\ \A i \in {1, 2, 4, 5, 7, 8, 10, 11, 12} : IsDigit(str[i])
    /\ str[3] = ":"
    /\ str[6] = ":"
    /\ str[9] = "."

\* C20: for every time s >= 0 in whole milliseconds, format_vtt_time(s) has
\* the fixed-width form HH:MM:SS.mmm (2-2-2-3 digits) and
\* parse_vtt_time(format_vtt_time(s)) = s.
C20_TimeSymmetryFixedWidth ==
    /\ formatted # <<>> => IsFixedWidth(formatted[1])
    /\ reparsed # <<>> => reparsed[1].ok /\ reparsed[1].ms = seconds

(***************************************************************************)
(* Decoding arbitrary documents (SpecDecode).                              *)
(***************************************************************************)

\* C21: parse_vtt_segments returns for every document, whatever its lines:
\* no call ends in an exception.
C21_DecodeNeverRaises == \A i \in 1..Len(parsed) : parsed[i].ok

(***************************************************************************)
(* Cache keys of arbitrary ids and language tags (SpecCacheKeys).          *)
(***************************************************************************)

\* C28 (as claimed): distinct (video_id, language) pairs never share a cache
\* entry: a lookup for video v and language l that finds an entry returns
\* the document that was stored for v and l, with the language tag l.
C28_PairsHaveOwnEntries ==
    [][\A v \in KeyIds, l \in KeyLanguages :
          (CacheGet(v, l) /\ cache_ret'.found) =>
              /\ cache_ret'.data[1].vtt = PairPayload(v, l)
              /\ cache_ret'.data[1].language = l]_vars

(***************************************************************************)
(* download_audio (SpecDownload).                                          *)
(***************************************************************************)

\* The passes of a call and its sleeps, each in order.
IsAttempt(e) == e.ev = "attempt"

IsSleep(e) == e.ev = "sleep"

Attempts == SelectSeq(dl_log, IsAttempt)

Sleeps == SelectSeq(dl_log, IsSleep)

\* A pass failed with a DownloadError whose message, in lower case, holds
\* "403" or "forbidden".
FailedForbidden(e) ==
    /\ e.error.kind = "DownloadError"
    /\ \E i \in 1..Len(e.error.msg) : e.error.msg[i] \in {"403", "forbidden", "Forbidden"}

\* C27: download_audio makes at most three attempts; an attempt that is not
\* the first follows a failure whose message indicates 403/forbidden and a
\* sleep of 2 s (before the second) or 4 s (before the third); any other
\* error is raised by the attempt it happened in; after three forbidden
\* failures the last of these errors is raised.
C27_RetryOnlyOnForbidden ==
    /\ attempt <= 3
    /\ Len(Attempts) = attempt
    /\ \A k \in 2..Len(Attempts) :
         /\ FailedForbidden(Attempts[k - 1])
         /\ Len(Sleeps) >= k - 1
         /\ Sleeps[k - 1].secs = IF k = 2 THEN 2 ELSE 4
    /\ \A k \in 1..Len(dl_log) :
         (IsAttempt(dl_log[k]) /\ k > 1) => IsSleep(dl_log[k - 1])
    /\ \A k \in 1..Len(Attempts) :
         (Attempts[k].error.kind # "downloaded" /\ ~FailedForbidden(Attempts[k])) =>
             /\ k = Len(Attempts)
             /\ dl_pc = "raised"
             /\ dl_result = <<Attempts[k].error>>
    /\ (dl_pc = "raised" /\ FailedForbidden(Attempts[Len(Attempts)])) =>
         /\ attempt = 3
         /\ \A k \in 1..3 : FailedForbidden(Attempts[k])
         /\ dl_result = <<Attempts[3].error>>
    /\ (dl_pc = "try" /\ attempt > 0) => FailedForbidden(Attempts[attempt])

\* C27 witness: three forbidden failures in a row, the call raised the third.
C27_Witness ==
    /\ dl_pc = "raised"
    /\ attempt = 3
    /\ Attempts[1].error.msg = Msg403
    /\ Attempts[3].error.msg = MsgForbidden
    /\ dl_result = <<Attempts[3].error>>

====
